---- MODULE Spec2Model ----
(***************************************************************************)
(* Control plane of the Milkspider walking robot (v3.1).                   *)
(*                                                                         *)
(* Two real-time builds exist in the repository and both are modelled:     *)
(*   "v1"  muscle_rtos/app_main_v1.c : mailbox handler + direct servo      *)
(*         output, fed by brain_linux/src (main.cpp, shared_memory.cpp,    *)
(*         mailbox.cpp) through the shared ring and the doorbell;          *)
(*   "mt"  muscle_rtos/motion_task.c with archive/app_main.c and           *)
(*         archive/rpmsg_motion_rx.c : queue + interpolating motion task.  *)
(* Both use safety/watchdog.c, safety/failsafe.c and drivers/pca9685.c.    *)
(*                                                                         *)
(* Time is in ms, the FreeRTOS tick (1 kHz tick, freertos_config.h).  Every *)
(* time stamp the code keeps is held as its distance from the current tick *)
(* count: feed_age = xTaskGetTickCount() - s_last_feed_tick, *_due = wake   *)
(* time - xTaskGetTickCount().  Time advances from one task deadline to    *)
(* the next; every task runs at its deadline before time moves on.         *)
(***************************************************************************)
EXTENDS Integers, Sequences, FiniteSets, TLC

\* ------------------------------------------------------------------ limits
SERVO_PWM_MIN_US == 500
SERVO_PWM_MAX_US == 2500
SERVO_PWM_NEUTRAL_US == 1500
SERVO_COUNT_TOTAL == 13
PCA9685_CHANNEL_COUNT == 16
HEARTBEAT_TIMEOUT_MS == 250
MOTION_UPDATE_HZ == 50
WATCHDOG_CHECK_PERIOD_MS == 25
HEARTBEAT_INTERVAL_MS == 100
MOTION_QUEUE_LENGTH == 4
PACKET_RING_SIZE == 8
V1_RECEIVE_TIMEOUT_MS == 100

MOTION_UPDATE_PERIOD_MS == 1000 \div MOTION_UPDATE_HZ

\* Doorbell command ids as each side defines them.
GP_CMD_MOTION_PACKET == 32
GP_CMD_HEARTBEAT == 34
GP_CMD_ESTOP == 35
RT_CMD_HEARTBEAT == 16
RT_CMD_MOTION_PACKET == 32
RT_CMD_ESTOP == 48

\* ------------------------------------------------------------------ bounds
MaxAge == 300
MaxSeq == 2
MaxPush == 10
MaxMbox == 1

U16 == 65536

Channels == 0 .. (SERVO_COUNT_TOTAL - 1)
PwmChannels == 0 .. (PCA9685_CHANNEL_COUNT - 1)

\* A pulse width of 0 in pwm marks a channel the driver has not written yet.
Unwritten == 0

Min2(a, b) == IF a <= b THEN a ELSE b

\* ------------------------------------------------------------------ clamp
\* Mutation of the clamp: the lower limit is not applied.
clamp_servo_us_upper(value) ==
    IF value > SERVO_PWM_MAX_US THEN SERVO_PWM_MAX_US ELSE value

\* common/limits.h, clamp_servo_us
clamp_servo_us(value) ==
    IF value < SERVO_PWM_MIN_US THEN SERVO_PWM_MIN_US
    ELSE IF value > SERVO_PWM_MAX_US THEN SERVO_PWM_MAX_US
    ELSE value

\* Mutation of the driver: the pulse width goes to the chip unclamped.
pca9685_pulse_unclamped(pulse_us) == pulse_us

\* drivers/pca9685.c, pca9685_set_pwm_us: the pulse width that reaches the chip.
pca9685_pulse(pulse_us) ==
    LET lo == IF pulse_us < SERVO_PWM_MIN_US THEN SERVO_PWM_MIN_US ELSE pulse_us
    IN  IF lo > SERVO_PWM_MAX_US THEN SERVO_PWM_MAX_US ELSE lo

\* pca9685_set_pwm_us(channel, pulse_us) applied to the output map p.
pca9685_set_pwm_us(p, channel, pulse_us) ==
    IF channel >= PCA9685_CHANNEL_COUNT THEN p
    ELSE [p EXCEPT ![channel] = pca9685_pulse(pulse_us)]

\* pca9685_set_all_us: all 16 channels.
pca9685_set_all_us(p, pulse_us) ==
    [c \in PwmChannels |-> pca9685_pulse(pulse_us)]

\* The output loop of the motion task / apply_servo_values: channels 0..12.
WritePose(p, pose) ==
    [c \in PwmChannels |->
        IF c \in Channels THEN pca9685_pulse(pose[c]) ELSE p[c]]

\* ------------------------------------------------------------------ packets
SPIDER_MAGIC == 45850
SPIDER_VERSION == <<3, 1>>

FLAG_ESTOP == "ESTOP"
FLAG_HOLD == "HOLD"
FLAG_CLAMP_ENABLE == "CLAMP_ENABLE"
FLAG_INTERP_Q16 == "INTERP_Q16"

\* PosePacket31.  crc16 records whether the stored CRC equals the CRC of the
\* first 40 bytes.
PosePacket31(magic, ver, seq, t_ms, flags, servo_us, crc16) ==
    [magic |-> magic, ver |-> ver, seq |-> seq, t_ms |-> t_ms,
     flags |-> flags, servo_us |-> servo_us, crc16 |-> crc16]

NeutralPose == [c \in Channels |-> SERVO_PWM_NEUTRAL_US]

\* A slot of the ring after the producer's memset: all bytes zero.
ZeroPacket == PosePacket31(0, <<0, 0>>, 0, 0, {}, [c \in Channels |-> 0], "mismatch")

\* Input poses: one out of range on both sides (3000 on channel 0 as in the
\* clamp scenario, 400 on channel 1, 1800 elsewhere) and the neutral pose.
WildPose == [c \in Channels |-> IF c = 0 THEN 3000 ELSE IF c = 1 THEN 400 ELSE 1800]
InputPoses == {WildPose}
InputTms == {40}

ValidPacket(seq, t_ms, flags, servo_us) ==
    PosePacket31(SPIDER_MAGIC, SPIDER_VERSION, seq, t_ms, flags, servo_us, "match")

\* Packets a sender can present to a receiver whose last accepted seq is
\* last_seq.  With the next seq: a pose (float or Q16), an ESTOP packet, a
\* HOLD packet (the heartbeat packet), a pose whose CRC does not match.
\* With the seq already accepted: a repeated pose.
InputPackets(last_seq) ==
    (IF last_seq < MaxSeq
     THEN {ValidPacket(last_seq + 1, 40, {FLAG_CLAMP_ENABLE}, WildPose),
           ValidPacket(last_seq + 1, 40, {FLAG_CLAMP_ENABLE, FLAG_INTERP_Q16}, NeutralPose),
           ValidPacket(last_seq + 1, 0, {FLAG_CLAMP_ENABLE, FLAG_ESTOP}, NeutralPose),
           ValidPacket(last_seq + 1, 0, {FLAG_CLAMP_ENABLE, FLAG_HOLD}, WildPose),
           PosePacket31(SPIDER_MAGIC, SPIDER_VERSION, last_seq + 1, 0,
                        {FLAG_CLAMP_ENABLE}, WildPose, "mismatch")}
     ELSE {})
    \cup
    (IF last_seq >= 1
     THEN {ValidPacket(last_seq, 40, {FLAG_CLAMP_ENABLE}, WildPose)}
     ELSE {})

\* ------------------------------------------------------------------ state
VARIABLES
    build,          \* "v1" or "mt": which real-time build runs
    wdg,            \* watchdog.c: s_state, and s_last_feed_tick as feed_age
    wd_pc,          \* watchdog task: "sleep" | "escalate"
    wd_due,         \* watchdog task: time left to its next wake
    faults,         \* fault_flags.c: s_fault_flags as a set
    pwm,            \* last pulse width written to each PCA9685 channel
    fs_estop,       \* failsafe.c: s_estop_active
    mt,             \* motion_task.c: s_state, s_current_us, s_target_us
    interp,         \* interpolator.c statics
    rx_last_seq,    \* rpmsg_motion_rx.c: s_last_seq
    motion_queue,   \* g_motion_queue (mt build)
    mt_due,         \* motion task: time left to its next 20 ms boundary
    v1,             \* app_main_v1.c: g_last_seq, g_estop_active, and whether
                    \* g_shared_buf has been set (main_cvirtos has run)
    v1_due,         \* app_main_v1.c motion task: time left of its 100 ms receive wait
    shared,         \* SharedMotionBuffer: write_idx, read_idx, flags, packets
    mbox,           \* the doorbell in flight, GP -> RT; the RT handler takes it
                    \* before the GP side issues its next command
    gp,             \* main.cpp: g_estop, m_seq, m_last_heartbeat_ms as hb_age, and
                    \* which GP-side mapping of the region is open ("none", "shm"
                    \* for SharedMemory, "cmdqu" for IpcMuscleRpmsg)
    gpw,            \* SharedMemory::writePacket in progress: pc, locals, packet
    rt,             \* process_shared_buffer_packets in each RT context: pc, locals
    preempted,      \* the RT context suspended inside its drain by the other one
    push_log,       \* packets stored by successful pushes, in order
    reads,          \* the RT drain's slot reads against push_log: how many
                    \* matched it in order, and the first read that did not
    it_statics,     \* interpolator.c statics of the interpolator driven on its own
    it_output_us,   \* the caller's output_us array of that interpolator
    it_ticks,       \* interpolator_tick calls since its interpolator_start
    it_ret,         \* what the last of these calls returned
    cl_x,           \* limits.h clamp_servo_us: the argument of the first call
    cl_rets,        \* what the calls returned, each later call taking the
                    \* value returned before as its argument
    sc,             \* src/scan_controller.h: the members of ScanController, the two
                    \* time stamps kept as the time since them
    sc_servo,       \* the angle last given to the servo callback
    sc_point,       \* the ScanPoint last given to the data callback
    sc_steps,       \* steps made by tick() since start()
    sc_samples,     \* range samples taken since the last servo step
    tm,             \* archived task_manager: the members of TaskManager, the two
                    \* time stamps kept as the time since them
    tm_run,         \* observer of the sequence the task manager is running
    cr_bytes,       \* the 42 bytes of a PosePacket31 given to validate_packet
    cr_bit,         \* the bit of them changed in flight, -1 while none is
    cr_last_seq,    \* g_last_seq at that call
    cr_rets,        \* what validate_packet returned, once it has
    ws,             \* watchdog.c and the motion task calling it, statement by
                    \* statement: s_state, the time since s_last_feed_tick, the
                    \* motion task's position and locals, the watchdog task's wait
    hc_cmd,         \* the command or serial event that last stored to g_estop
    wf,             \* watchdog.c on its own: s_state and the time since
                    \* s_last_feed_tick
    wf_faults,      \* the fault flags beside it
    wf_before       \* s_state and the fault flags on entry to the watchdog_feed
                    \* call that has just returned

wdVars == <<wdg, wd_pc, wd_due>>
mtVars == <<mt, interp, rx_last_seq, motion_queue, mt_due, fs_estop>>
v1Vars == <<v1, v1_due, shared, mbox, gp>>
ringVars == <<gpw, rt, preempted, push_log, reads>>
sysVars == <<build, wdVars, faults, pwm, mtVars, v1Vars, ringVars>>
itVars == <<it_statics, it_output_us, it_ticks, it_ret>>
clVars == <<cl_x, cl_rets>>
scVars == <<sc, sc_servo, sc_point, sc_steps, sc_samples>>
tmVars == <<tm, tm_run>>
crVars == <<cr_bytes, cr_bit, cr_last_seq, cr_rets>>
wsVars == <<ws>>
hcVars == <<hc_cmd>>
wfVars == <<wf, wf_faults, wf_before>>
utVars == <<itVars, clVars, scVars, tmVars, crVars, wsVars, hcVars, wfVars>>
itRest == <<clVars, scVars, tmVars, crVars, wsVars, hcVars, wfVars>>
clRest == <<itVars, scVars, tmVars, crVars, wsVars, hcVars, wfVars>>
scRest == <<itVars, clVars, tmVars, crVars, wsVars, hcVars, wfVars>>
tmRest == <<itVars, clVars, scVars, crVars, wsVars, hcVars, wfVars>>
crRest == <<itVars, clVars, scVars, tmVars, wsVars, hcVars, wfVars>>
wsRest == <<itVars, clVars, scVars, tmVars, crVars, hcVars, wfVars>>
hcRest == <<itVars, clVars, scVars, tmVars, crVars, wsVars, wfVars>>
wfRest == <<itVars, clVars, scVars, tmVars, crVars, wsVars, hcVars>>
vars == <<sysVars, utVars>>

\* ------------------------------------------------------------------ watchdog
\* Mutation: the feed stores NORMAL whatever the state is.
watchdog_feed_to_normal(w) == [w EXCEPT !.feed_age = 0, !.s_state = "NORMAL"]

\* watchdog_feed
watchdog_feed(w) ==
    [w EXCEPT !.feed_age = 0,
              !.s_state = IF @ \in {"TIMEOUT", "HOLD"} THEN "NORMAL" ELSE @]

\* fault_flags_clear(FAULT_HEARTBEAT_TIMEOUT) inside watchdog_feed
watchdog_feed_faults(w, f) ==
    IF w.s_state \in {"TIMEOUT", "HOLD"} THEN f \ {"HEARTBEAT_TIMEOUT"} ELSE f

\* watchdog_clear_estop: return value
watchdog_clear_estop_ret(w) ==
    IF w.s_state # "ESTOP" THEN -1
    ELSE IF w.feed_age < HEARTBEAT_TIMEOUT_MS THEN 0
    ELSE -1

\* watchdog_clear_estop: state left behind
watchdog_clear_estop(w) ==
    IF w.s_state # "ESTOP" THEN w
    ELSE IF w.feed_age < HEARTBEAT_TIMEOUT_MS
         THEN [w EXCEPT !.s_state = "NORMAL"]
         ELSE [w EXCEPT !.s_state = "HOLD"]

\* Mutation: the timeout comparison is >= instead of >.
watchdog_expired_inclusive(elapsed) == elapsed >= HEARTBEAT_TIMEOUT_MS

\* watchdog_task_entry: elapsed > pdMS_TO_TICKS(HEARTBEAT_TIMEOUT_MS)
watchdog_expired(elapsed) == elapsed > HEARTBEAT_TIMEOUT_MS

\* failsafe_set_safe_pose / set_all_servos_neutral
failsafe_set_safe_pose(p) == pca9685_set_all_us(p, SERVO_PWM_NEUTRAL_US)

\* The timeout callback registered with watchdog_init:
\* app_main_v1.c on_watchdog_timeout drives every servo to neutral,
\* archive/app_main.c on_watchdog_timeout does nothing.
on_watchdog_timeout(b, p) == IF b = "v1" THEN failsafe_set_safe_pose(p) ELSE p

\* First half of a watchdog period: sample, and NORMAL -> TIMEOUT on expiry.
\* The watchdog task has the highest priority, so no other RT task runs
\* between this step and WatchdogEscalate.
WatchdogCheck ==
    /\ wd_pc = "sleep"
    /\ wd_due = 0
    /\ LET elapsed == wdg.feed_age
           current == wdg.s_state
       IN  IF current = "ESTOP"
           THEN /\ wd_due' = WATCHDOG_CHECK_PERIOD_MS
                /\ UNCHANGED <<wdg, wd_pc, faults, pwm>>
           ELSE IF watchdog_expired(elapsed)
           THEN /\ wd_pc' = "escalate"
                /\ IF current = "NORMAL"
                   THEN /\ wdg' = [wdg EXCEPT !.s_state = "TIMEOUT"]
                        /\ faults' = faults \cup {"HEARTBEAT_TIMEOUT"}
                        /\ pwm' = on_watchdog_timeout(build, pwm)
                   ELSE UNCHANGED <<wdg, faults, pwm>>
                /\ UNCHANGED wd_due
           ELSE /\ wd_due' = WATCHDOG_CHECK_PERIOD_MS
                /\ UNCHANGED <<wdg, wd_pc, faults, pwm>>
    /\ UNCHANGED <<utVars, build, ringVars, mtVars, v1Vars>>

\* Second half: TIMEOUT -> HOLD (failsafe_enter_hold has no effect), then sleep.
WatchdogEscalate ==
    /\ wd_pc = "escalate"
    /\ wdg' = IF wdg.s_state = "TIMEOUT" THEN [wdg EXCEPT !.s_state = "HOLD"] ELSE wdg
    /\ wd_pc' = "sleep"
    /\ wd_due' = WATCHDOG_CHECK_PERIOD_MS
    /\ UNCHANGED <<utVars, build, ringVars, faults, pwm, mtVars, v1Vars>>

\* An external clear command calls watchdog_clear_estop.
ClearEstop ==
    /\ wd_pc = "sleep"
    /\ wdg' = watchdog_clear_estop(wdg)
    /\ faults' = IF watchdog_clear_estop_ret(wdg) = 0
                 THEN faults \ {"ESTOP_ACTIVE"} ELSE faults
    /\ UNCHANGED <<utVars, build, ringVars, wd_pc, wd_due, pwm, mtVars, v1Vars>>

\* ------------------------------------------------------------------ interpolator
\* (uint16_t) conversion.  The 32-bit intermediates of this module (ring
\* indices, elapsed << 16, delta * t_q16) stay below 2^31 for every input the
\* bounds admit, so they are written without reduction.
ToU16(x) == x % U16

\* A uint32_t is kept as the 32-bit two's-complement integer with the same
\* bits: values below 2^31 are themselves, a value v from 2^31 on is v - 2^32.
I32_MAX == 2147483647

\* uint32_t a + k for a small k >= 0, wrapping at 2^32
U32Add(a, k) ==
    IF a > I32_MAX - k THEN (((a - I32_MAX) - 1) + k - I32_MAX) - 1 ELSE a + k

\* uint32_t a >= b
U32Ge(a, b) == IF (a < 0) = (b < 0) THEN a >= b ELSE a < 0

\* uint32_t x / d, for d # 0
U32Div(x, d) ==
    IF d < 0 THEN (IF U32Ge(x, d) THEN 1 ELSE 0)
    ELSE IF x >= 0 THEN x \div d
    ELSE LET half == (x \div 2) + 1073741824 + 1073741824    \* x >> 1
             bit == x % 2
             q == half \div d
             r == half % d
         IN  2 * q + (IF r >= (d - r) - bit THEN 1 ELSE 0)

\* uint32_t (elapsed << 16): the low 16 bits of elapsed move to the top
U32Shl16(elapsed) ==
    LET lo == elapsed % U16
    IN  IF lo < 32768 THEN lo * U16 ELSE (lo - U16) * U16

\* interpolator_start
interpolator_start(current_us, target_us, duration_ms, mode) ==
    [s_start_us |-> current_us, s_target_us |-> target_us,
     s_duration_ms |-> IF duration_ms # 0 THEN duration_ms ELSE 1,
     s_elapsed_ms |-> 0, s_mode |-> mode, s_active |-> TRUE]

\* interpolator_tick: s_elapsed_ms after the increment
interp_elapsed(ip) == U32Add(ip.s_elapsed_ms, MOTION_UPDATE_PERIOD_MS)

\* interpolator_tick: return value
interpolator_tick_done(ip) ==
    IF ~ip.s_active THEN TRUE ELSE U32Ge(interp_elapsed(ip), ip.s_duration_ms)

\* interpolator_tick: one channel of the float path, (uint16_t)(start + (target - start) * t)
\* with t = elapsed / duration taken exactly (elapsed and duration below 2^20).
interp_float(start, target, elapsed, duration) ==
    ToU16(start + (((target - start) * elapsed) \div duration))

\* interpolator_tick: one channel of the Q16.16 path in 32-bit arithmetic.
\* t_q16 is below 2^16 whenever the path is taken, so with pulses that differ
\* by less than 2^15 the int32_t product does not overflow.
interp_q16(start, target, elapsed, duration) ==
    LET t_q16 == U32Div(U32Shl16(elapsed), duration)
        delta == target - start
    IN  ToU16(start + ((delta * t_q16) \div U16))

\* Mutation: the tick computes its output whether the interpolation is
\* active or not.
interpolator_tick_out_inactive_too(ip, output_us) ==
    IF U32Ge(interp_elapsed(ip), ip.s_duration_ms) THEN ip.s_target_us
    ELSE [c \in Channels |->
            IF ip.s_mode = "FLOAT"
            THEN interp_float(ip.s_start_us[c], ip.s_target_us[c], interp_elapsed(ip), ip.s_duration_ms)
            ELSE interp_q16(ip.s_start_us[c], ip.s_target_us[c], interp_elapsed(ip), ip.s_duration_ms)]

\* interpolator_tick: output_us after the call
interpolator_tick_out(ip, output_us) ==
    IF ~ip.s_active THEN output_us
    ELSE IF U32Ge(interp_elapsed(ip), ip.s_duration_ms) THEN ip.s_target_us
    ELSE [c \in Channels |->
            IF ip.s_mode = "FLOAT"
            THEN interp_float(ip.s_start_us[c], ip.s_target_us[c], interp_elapsed(ip), ip.s_duration_ms)
            ELSE interp_q16(ip.s_start_us[c], ip.s_target_us[c], interp_elapsed(ip), ip.s_duration_ms)]

\* interpolator_tick: the statics after the call
interpolator_tick_state(ip) ==
    IF ~ip.s_active THEN ip
    ELSE [ip EXCEPT !.s_elapsed_ms = interp_elapsed(ip),
                    !.s_active = ~U32Ge(interp_elapsed(ip), ip.s_duration_ms)]

\* ------------------------------------------------------------------ mt build: receiver
\* validate_and_queue_packet: return value (0 queued, -1..-4 rejected, -5 queue full)
validate_and_queue_ret(pkt, last_seq, qlen) ==
    IF pkt.magic # SPIDER_MAGIC THEN -1
    ELSE IF pkt.ver # SPIDER_VERSION THEN -2
    ELSE IF pkt.crc16 # "match" THEN -3
    ELSE IF pkt.seq <= last_seq /\ last_seq # 0 THEN -4
    ELSE IF qlen < MOTION_QUEUE_LENGTH THEN 0
    ELSE -5

\* fault_flags_set calls of the validation
validate_faults(ret, f) ==
    IF ret = -1 THEN f \cup {"PKT_MAGIC"}
    ELSE IF ret = -2 THEN f \cup {"PKT_VERSION"}
    ELSE IF ret = -3 THEN f \cup {"PKT_CRC"}
    ELSE f

\* A packet reaches validate_and_queue_packet (rpmsg_motion_callback or the ring drain).
RxPacket(pkt) ==
    /\ build = "mt"
    /\ wd_pc = "sleep"
    /\ LET ret == validate_and_queue_ret(pkt, rx_last_seq, Len(motion_queue))
       IN  /\ faults' = validate_faults(ret, faults)
           /\ rx_last_seq' = IF ret \in {0, -5} THEN pkt.seq ELSE rx_last_seq
           /\ motion_queue' = IF ret = 0 THEN Append(motion_queue, pkt) ELSE motion_queue
    /\ UNCHANGED <<utVars, build, ringVars, wdVars, pwm, mt, interp, mt_due, fs_estop, v1Vars>>

\* ------------------------------------------------------------------ mt build: motion task
\* motion_task_entry lines 96-103: local state follows the watchdog state.
sync_with_watchdog(s, wdog_state) ==
    IF wdog_state = "ESTOP" /\ s # "ESTOP" THEN "ESTOP"
    ELSE IF wdog_state \in {"TIMEOUT", "HOLD"} /\ s # "ESTOP" THEN "HOLD"
    ELSE s

\* motion_task_entry lines 85-87: the clamped target.
packet_target(servo_us) == [c \in Channels |-> clamp_servo_us(servo_us[c])]

\* motion_task_entry lines 96-130 from local state s, statics ip, watchdog w:
\* sync, state machine, output to the servos, wait for the next 20 ms boundary.
MotionTaskOutput(s, ip, tgt, w, f) ==
    LET s2 == sync_with_watchdog(s, w.s_state)
        moving == s2 = "MOVING"
        cur == IF moving THEN interpolator_tick_out(ip, mt.s_current_us) ELSE mt.s_current_us
        s3 == IF moving /\ interpolator_tick_done(ip) THEN "IDLE" ELSE s2
    IN  /\ mt' = [s_state |-> s3, s_current_us |-> cur, s_target_us |-> tgt]
        /\ interp' = IF moving THEN interpolator_tick_state(ip) ELSE ip
        /\ pwm' = WritePose(pwm, cur)
        /\ wdg' = w
        /\ faults' = f
        /\ mt_due' = MOTION_UPDATE_PERIOD_MS
        /\ UNCHANGED fs_estop

\* One iteration of the while loop of motion_task_entry.  The receive wait of
\* half a period is taken at the iteration's instant; an iteration ended by
\* `continue` neither writes the servos nor waits for the next boundary.
MotionTaskIter ==
    /\ build = "mt"
    /\ wd_pc = "sleep"
    /\ mt_due = 0
    /\ IF motion_queue # <<>>
       THEN LET pkt == Head(motion_queue)
                w1 == watchdog_feed(wdg)
                f1 == watchdog_feed_faults(wdg, faults)
            IN  /\ motion_queue' = Tail(motion_queue)
                /\ IF FLAG_ESTOP \in pkt.flags
                   THEN /\ mt' = [mt EXCEPT !.s_state = "ESTOP"]
                        /\ wdg' = [w1 EXCEPT !.s_state = "ESTOP"]
                        /\ faults' = f1 \cup {"ESTOP_ACTIVE"}
                        /\ fs_estop' = TRUE
                        /\ pwm' = failsafe_set_safe_pose(pwm)
                        /\ UNCHANGED <<interp, mt_due>>
                   ELSE IF FLAG_HOLD \in pkt.flags
                   THEN /\ mt' = [mt EXCEPT !.s_state = "HOLD"]
                        /\ wdg' = w1
                        /\ faults' = f1
                        /\ UNCHANGED <<interp, mt_due, fs_estop, pwm>>
                   ELSE MotionTaskOutput("MOVING",
                               interpolator_start(mt.s_current_us, packet_target(pkt.servo_us), pkt.t_ms,
                                   IF FLAG_INTERP_Q16 \in pkt.flags THEN "Q16" ELSE "FLOAT"),
                               packet_target(pkt.servo_us), w1, f1)
       ELSE /\ MotionTaskOutput(mt.s_state, interp, mt.s_target_us, wdg, faults)
            /\ UNCHANGED motion_queue
    /\ UNCHANGED <<utVars, build, ringVars, wd_pc, wd_due, rx_last_seq, v1Vars>>

\* ------------------------------------------------------------------ v1 build: ring consumer
shared_buffer_slot_index(idx) == idx % PACKET_RING_SIZE

\* The RT globals that the v1 packet path reads and writes, as one value.
RtState == [v1 |-> v1, wdg |-> wdg, faults |-> faults, pwm |-> pwm, shared |-> shared]

\* Mutation: validate_packet without the CRC comparison.
validate_packet_nocrc(pkt, last_seq) ==
    IF pkt.magic # SPIDER_MAGIC THEN -1
    ELSE IF pkt.ver # SPIDER_VERSION THEN -2
    ELSE IF pkt.seq <= last_seq /\ last_seq # 0 THEN -4
    ELSE 0

\* validate_packet of app_main_v1.c: return value
validate_packet(pkt, last_seq) ==
    IF pkt.magic # SPIDER_MAGIC THEN -1
    ELSE IF pkt.ver # SPIDER_VERSION THEN -2
    ELSE IF pkt.crc16 # "match" THEN -3
    ELSE IF pkt.seq <= last_seq /\ last_seq # 0 THEN -4
    ELSE 0

\* handle_estop
handle_estop(st) ==
    [st EXCEPT !.v1.g_estop_active = TRUE,
               !.faults = @ \cup {"ESTOP_ACTIVE"},
               !.pwm = failsafe_set_safe_pose(@),
               !.shared.flags = IF st.v1.g_shared_buf THEN @ \cup {"ESTOP"} ELSE @]

\* apply_servo_values
apply_servo_values(st, pkt) == [st EXCEPT !.pwm = WritePose(@, pkt.servo_us)]

\* Lines 146-157 of process_shared_buffer_packets (and 208-216 of the motion
\* task): validate one packet and act on it.
process_packet(st, pkt) ==
    LET ret == validate_packet(pkt, st.v1.g_last_seq)
        st1 == [st EXCEPT !.faults = validate_faults(ret, @)]
    IN  IF ret # 0 THEN st1
        ELSE LET st2 == [st1 EXCEPT !.wdg = watchdog_feed(@),
                                    !.faults = watchdog_feed_faults(st1.wdg, @)]
             IN  IF FLAG_ESTOP \in pkt.flags
                 THEN handle_estop(st2)
                 ELSE [apply_servo_values(st2, pkt) EXCEPT !.v1.g_last_seq = pkt.seq]

\* Body of the while loop for local read_idx r, up to the store of read_idx.
drain_slot(st, r) ==
    IF st.v1.g_estop_active THEN st
    ELSE process_packet(st, st.shared.packets[shared_buffer_slot_index(r)])

\* g_shared_buf->read_idx = read_idx after read_idx++
store_read_idx(st, r) == [st EXCEPT !.shared.read_idx = (r + 1)]

\* The while loop of process_shared_buffer_packets from local read_idx r to
\* the write_idx w loaded on entry.
RECURSIVE drain_loop(_, _, _)
drain_loop(st, r, w) ==
    IF r = w THEN st
    ELSE drain_loop(store_read_idx(drain_slot(st, r), r), r + 1, w)

\* process_shared_buffer_packets, run without interruption
process_shared_buffer_packets(st) ==
    IF ~st.v1.g_shared_buf THEN st
    ELSE drain_loop(st, st.shared.read_idx, st.shared.write_idx)

\* mailbox_cmd_handler
mailbox_cmd_handler(st, cmd_id) ==
    IF cmd_id = RT_CMD_HEARTBEAT
    THEN [st EXCEPT !.wdg = watchdog_feed(@), !.faults = watchdog_feed_faults(st.wdg, @)]
    ELSE IF cmd_id = RT_CMD_MOTION_PACKET
    THEN IF ~st.v1.g_estop_active THEN process_shared_buffer_packets(st) ELSE st
    ELSE IF cmd_id = RT_CMD_ESTOP
    THEN handle_estop(st)
    ELSE st

SetRtState(st) ==
    /\ v1' = st.v1
    /\ wdg' = st.wdg
    /\ faults' = st.faults
    /\ pwm' = st.pwm
    /\ shared' = st.shared

\* The RT side takes the oldest doorbell from the mailbox.
MailboxHandler ==
    /\ build = "v1"
    /\ wd_pc = "sleep"
    /\ mbox # <<>>
    /\ SetRtState(mailbox_cmd_handler(RtState, Head(mbox).cmd_id))
    /\ mbox' = Tail(mbox)
    /\ UNCHANGED <<utVars, build, ringVars, wd_pc, wd_due, mtVars, v1_due, gp>>

\* One iteration of the motion task of app_main_v1.c.  Nothing ever sends to
\* g_motion_queue in this build, so the receive times out after 100 ms and the
\* iteration drains the ring.
V1MotionTask ==
    /\ build = "v1"
    /\ wd_pc = "sleep"
    /\ v1_due = 0
    /\ SetRtState(IF ~v1.g_estop_active THEN process_shared_buffer_packets(RtState)
                  ELSE RtState)
    /\ v1_due' = V1_RECEIVE_TIMEOUT_MS
    /\ UNCHANGED <<utVars, build, ringVars, wd_pc, wd_due, mtVars, mbox, gp>>

\* ------------------------------------------------------------------ GP side
Doorbell(cmd_id, param) == [cmd_id |-> cmd_id, param |-> param]

\* SharedMemory::writePacket: return value
writePacket_ok(sh) == ~((sh.write_idx - sh.read_idx) >= PACKET_RING_SIZE)

\* SharedMemory::writePacket: the region afterwards
writePacket(sh, pkt) ==
    IF ~writePacket_ok(sh) THEN sh
    ELSE [sh EXCEPT !.packets[sh.write_idx % PACKET_RING_SIZE] = pkt,
                    !.write_idx = (sh.write_idx + 1)]

\* BrainDaemon::buildPosePacket with seq already incremented
buildPosePacket(seq, t_ms, flags, servos) ==
    PosePacket31(SPIDER_MAGIC, SPIDER_VERSION, seq, t_ms, flags,
                 [c \in Channels |-> clamp_servo_us(servos[c])], "match")

\* BrainDaemon::sendPosePacket: does the packet get past the E-STOP filter
sendPosePacket_passes(g_estop, pkt) == ~(g_estop /\ FLAG_ESTOP \notin pkt.flags)

\* BrainDaemon::sendPosePacket
SendPosePacket(pkt) ==
    IF sendPosePacket_passes(gp.g_estop, pkt) /\ writePacket_ok(shared)
    THEN /\ shared' = writePacket(shared, pkt)
         /\ mbox' = Append(mbox, Doorbell(GP_CMD_MOTION_PACKET, (shared.write_idx + 1)))
    ELSE UNCHANGED <<shared, mbox>>

\* handleCommand "move" / onSerialMove: clamp, build, send.
GP_CmdMove(t_ms, values) ==
    /\ build = "v1"
    /\ gp.m_seq < MaxSeq
    /\ shared.write_idx < MaxSeq
    /\ mbox = <<>>
    /\ LET flags == {FLAG_CLAMP_ENABLE} \cup (IF gp.g_estop THEN {FLAG_ESTOP} ELSE {})
           pkt == buildPosePacket(gp.m_seq + 1, t_ms, flags, values)
       IN  /\ SendPosePacket(pkt)
           /\ gp' = [gp EXCEPT !.m_seq = @ + 1]
    /\ UNCHANGED <<utVars, build, ringVars, wdVars, faults, pwm, mtVars, v1, v1_due>>

\* handleCommand "estop" / onSerialEstop
GP_CmdEstop ==
    /\ build = "v1"
    /\ mbox = <<>>
    /\ gp' = [gp EXCEPT !.g_estop = TRUE]
    /\ mbox' = Append(mbox, Doorbell(GP_CMD_ESTOP, 0))
    /\ UNCHANGED <<utVars, build, ringVars, wdVars, faults, pwm, mtVars, v1, v1_due, shared>>

\* handleCommand "stop", "resume", "clear_estop" / onSerialResume: each of
\* them stores false to g_estop.
GP_CmdUnlatch(cmd) ==
    /\ build = "v1"
    /\ cmd \in {"stop", "resume", "clear_estop"}
    /\ gp' = [gp EXCEPT !.g_estop = FALSE]
    /\ UNCHANGED <<utVars, build, ringVars, wdVars, faults, pwm, mtVars, v1, v1_due, shared, mbox>>

\* BrainDaemon::tickHeartbeat at its 100 ms boundary
GP_TickHeartbeat ==
    /\ build = "v1"
    /\ mbox = <<>>
    /\ gp.hb_age >= HEARTBEAT_INTERVAL_MS
    /\ mbox' = Append(mbox, Doorbell(GP_CMD_HEARTBEAT, 0))
    /\ gp' = [gp EXCEPT !.hb_age = 0]
    /\ UNCHANGED <<utVars, build, ringVars, wdVars, faults, pwm, mtVars, v1, v1_due, shared>>

\* Another user of SharedMemory (the archived daemon, a bench tool) stores a
\* packet of its own making through writePacket and rings the doorbell.
RingWriter(pkt) ==
    /\ build = "v1"
    /\ mbox = <<>>
    /\ writePacket_ok(shared)
    /\ shared.write_idx < MaxSeq
    /\ shared' = writePacket(shared, pkt)
    /\ mbox' = Append(mbox, Doorbell(GP_CMD_MOTION_PACKET, (shared.write_idx + 1)))
    /\ UNCHANGED <<utVars, build, ringVars, wdVars, faults, pwm, mtVars, v1, v1_due, gp>>

\* ------------------------------------------------------------------ time
\* Time left until the next deadline of the running build.
NextDeadline ==
    IF build = "mt" THEN Min2(wd_due, mt_due)
    ELSE Min2(wd_due, Min2(v1_due, HEARTBEAT_INTERVAL_MS - gp.hb_age))

\* Time passes to the next deadline once everything due now has run.
\* The feed age saturates at MaxAge, beyond every threshold it is compared to.
AdvanceTime ==
    /\ wd_pc = "sleep"
    /\ build = "v1" => mbox = <<>>
    /\ NextDeadline > 0
    /\ LET d == NextDeadline
       IN  /\ wdg' = [wdg EXCEPT !.feed_age = Min2(@ + d, MaxAge)]
           /\ wd_due' = wd_due - d
           /\ mt_due' = IF build = "mt" THEN mt_due - d ELSE mt_due
           /\ v1_due' = IF build = "v1" THEN v1_due - d ELSE v1_due
           /\ gp' = IF build = "v1" THEN [gp EXCEPT !.hb_age = @ + d] ELSE gp
    /\ UNCHANGED <<utVars, build, ringVars, wd_pc, faults, pwm, mt, interp, rx_last_seq, motion_queue,
                   fs_estop, v1, shared, mbox>>

\* ------------------------------------------------------------------ ring, step by step
\* The contexts of the v1 build that call process_shared_buffer_packets:
\* mailbox_cmd_handler (the command-queue context) and motion_task_entry.
RtContexts == {"handler", "motion"}

OtherContext(ctx) == IF ctx = "handler" THEN "motion" ELSE "handler"

\* A context runs when it is not the one suspended by the other.
Runs(ctx) == preempted # ctx

\* A context that starts while the other is inside its drain suspends it;
\* when it returns the suspended one resumes.
EnterPreempting(ctx) ==
    IF rt[OtherContext(ctx)].pc # "idle" THEN OtherContext(ctx) ELSE preempted

LeaveResuming(ctx) == IF preempted = OtherContext(ctx) THEN "none" ELSE preempted

\* memcpy into a slot is not atomic: part way through, the slot holds the
\* head of the new packet and the tail of the old one.
TornPacket(old, new) ==
    [old EXCEPT !.magic = new.magic, !.ver = new.ver, !.seq = new.seq,
                !.t_ms = new.t_ms, !.flags = new.flags]

\* No read has departed from the push order yet.
NoRead == [seq |-> 0]

\* The drain reads pkt from a slot: it is the next packet of push_log, or it
\* is the first read that is not (a repeat, a skip, a changed or torn packet).
ObserveRead(pkt) ==
    IF reads.bad # NoRead THEN reads
    ELSE IF reads.matched < Len(push_log) /\ pkt = push_log[reads.matched + 1]
    THEN [reads EXCEPT !.matched = @ + 1]
    ELSE [reads EXCEPT !.bad = pkt]

\* sendPosePacket -> writePacket lines 75-82: build the packet, load the
\* indices, return false when the ring is full.
GP_WriteLoad(values) ==
    /\ gpw.pc = "idle"
    /\ gp.m_seq < MaxPush
    /\ gp' = [gp EXCEPT !.m_seq = @ + 1]
    /\ IF writePacket_ok(shared)
       THEN gpw' = [pc |-> "copy", write_idx |-> shared.write_idx,
                    pkt |-> buildPosePacket(gp.m_seq + 1, 40, {FLAG_CLAMP_ENABLE}, values)]
       ELSE UNCHANGED gpw
    /\ UNCHANGED <<utVars, build, wdVars, faults, pwm, mtVars, v1, v1_due, shared, mbox,
                   rt, preempted, push_log, reads>>

\* writePacket line 86, memcpy under way
GP_WriteCopy ==
    /\ gpw.pc = "copy"
    /\ shared' = [shared EXCEPT !.packets[shared_buffer_slot_index(gpw.write_idx)] =
                                    TornPacket(@, gpw.pkt)]
    /\ gpw' = [gpw EXCEPT !.pc = "copied"]
    /\ UNCHANGED <<utVars, build, wdVars, faults, pwm, mtVars, v1, v1_due, mbox, gp,
                   rt, preempted, push_log, reads>>

\* writePacket line 86, memcpy complete
GP_WriteCopied ==
    /\ gpw.pc = "copied"
    /\ shared' = [shared EXCEPT !.packets[shared_buffer_slot_index(gpw.write_idx)] = gpw.pkt]
    /\ gpw' = [gpw EXCEPT !.pc = "publish"]
    /\ UNCHANGED <<utVars, build, wdVars, faults, pwm, mtVars, v1, v1_due, mbox, gp,
                   rt, preempted, push_log, reads>>

\* writePacket lines 88-90: fence, then write_idx = write_idx + 1
GP_WritePublish ==
    /\ gpw.pc = "publish"
    /\ shared' = [shared EXCEPT !.write_idx = gpw.write_idx + 1]
    /\ push_log' = Append(push_log, gpw.pkt)
    /\ gpw' = [gpw EXCEPT !.pc = "notify"]
    /\ UNCHANGED <<utVars, build, wdVars, faults, pwm, mtVars, v1, v1_due, mbox, gp,
                   rt, preempted, reads>>

\* sendPosePacket line 961: notifyPacketReady(write_idx)
GP_WriteNotify ==
    /\ gpw.pc = "notify"
    /\ mbox = <<>>
    /\ mbox' = Append(mbox, Doorbell(GP_CMD_MOTION_PACKET, gpw.write_idx + 1))
    /\ gpw' = [gpw EXCEPT !.pc = "idle"]
    /\ UNCHANGED <<utVars, build, wdVars, faults, pwm, mtVars, v1, v1_due, shared, gp,
                   rt, preempted, push_log, reads>>

\* process_shared_buffer_packets lines 130-131: load read_idx and write_idx.
\* The handler is entered for a MOTION_PACKET doorbell, the motion task when
\* its receive has timed out; both skip the drain while g_estop_active.
RT_DrainEnter(ctx) ==
    /\ rt[ctx].pc = "idle"
    /\ Runs(ctx)
    /\ IF ctx = "handler"
       THEN /\ mbox # <<>>
            /\ Head(mbox).cmd_id = RT_CMD_MOTION_PACKET
            /\ mbox' = Tail(mbox)
       ELSE UNCHANGED mbox
    /\ IF ~v1.g_estop_active
       THEN /\ rt' = [rt EXCEPT ![ctx] = [pc |-> "loop", read_idx |-> shared.read_idx,
                                          write_idx |-> shared.write_idx]]
            /\ preempted' = EnterPreempting(ctx)
       ELSE UNCHANGED <<rt, preempted>>
    /\ UNCHANGED <<utVars, build, wdVars, faults, pwm, mtVars, v1, v1_due, shared, gp,
                   gpw, push_log, reads>>

\* Lines 134-157: the loop test and, for a slot to consume, the read of the
\* slot with everything done on the packet.
RT_DrainSlot(ctx) ==
    /\ rt[ctx].pc = "loop"
    /\ Runs(ctx)
    /\ IF rt[ctx].read_idx = rt[ctx].write_idx
       THEN /\ rt' = [rt EXCEPT ![ctx].pc = "idle"]
            /\ preempted' = LeaveResuming(ctx)
            /\ UNCHANGED <<v1, wdg, faults, pwm, shared, reads>>
       ELSE /\ SetRtState(drain_slot(RtState, rt[ctx].read_idx))
            /\ reads' = IF v1.g_estop_active THEN reads
                        ELSE ObserveRead(shared.packets[shared_buffer_slot_index(rt[ctx].read_idx)])
            /\ rt' = [rt EXCEPT ![ctx].pc = "store"]
            /\ UNCHANGED preempted
    /\ UNCHANGED <<utVars, build, wd_pc, wd_due, mtVars, v1_due, mbox, gp, gpw, push_log>>

\* Lines 159-161: read_idx++, g_shared_buf->read_idx = read_idx, fence.
RT_DrainStore(ctx) ==
    /\ rt[ctx].pc = "store"
    /\ Runs(ctx)
    /\ shared' = store_read_idx(RtState, rt[ctx].read_idx).shared
    /\ rt' = [rt EXCEPT ![ctx].pc = "loop", ![ctx].read_idx = @ + 1]
    /\ UNCHANGED <<utVars, build, wdVars, faults, pwm, mtVars, v1, v1_due, mbox, gp,
                   gpw, preempted, push_log, reads>>

NextRing ==
    \/ \E values \in InputPoses : GP_WriteLoad(values)
    \/ GP_WriteCopy
    \/ GP_WriteCopied
    \/ GP_WritePublish
    \/ GP_WriteNotify
    \/ \E ctx \in RtContexts : RT_DrainEnter(ctx)
    \/ \E ctx \in RtContexts : RT_DrainSlot(ctx)
    \/ \E ctx \in RtContexts : RT_DrainStore(ctx)

\* ------------------------------------------------------------------ units driven on their own
ZeroPose == [c \in Channels |-> 0]

\* interpolator.c: the zero-initialised statics
ItAtRest ==
    /\ it_statics = [s_start_us |-> ZeroPose, s_target_us |-> ZeroPose, s_duration_ms |-> 0,
                     s_elapsed_ms |-> 0, s_mode |-> "FLOAT", s_active |-> FALSE]
    /\ it_output_us = ZeroPose
    /\ it_ticks = 0
    /\ it_ret = TRUE

\* clamp_servo_us not called yet
ClAtRest ==
    /\ cl_x = 0
    /\ cl_rets = <<>>

\* scan_controller.h: the member initialisers, after initScanController
ScanProfile == [min_deg |-> 20, max_deg |-> 160, step_deg |-> 10, rate_hz |-> 5, dwell_ms |-> 80]

NoPoint == [angle_deg |-> 0 - 1, distance_mm |-> 0 - 1]

ScAtRest ==
    /\ sc = [m_profile |-> ScanProfile, m_running |-> FALSE, m_current_angle |-> 90,
             m_direction |-> 1, since_step |-> 0, since_dwell |-> 0, m_dwelling |-> FALSE,
             m_scan_data |-> <<>>]
    /\ sc_servo = 0 - 1
    /\ sc_point = NoPoint
    /\ sc_steps = 0
    /\ sc_samples = 0

\* The archived brain daemon's task manager: its data and its state after
\* construction.

MaxTmSeq == 5
MaxTmQueue == 1
TmDts == {50}
TM_HEARTBEAT_MS == 100
SERVO_COUNT_LEGS == 8
SERVO_CHANNEL_SCAN == 12

LegacyChannels == 0 .. (SERVO_COUNT_LEGS - 1)

\* MotionFrame: eight legacy channels and the frame's time.
MotionFrame(servo_us, t_ms) == [servo_us |-> servo_us, t_ms |-> t_ms]

\* MotionLoader::m_sequences after loadMotionSequences: one sequence of two
\* frames, the first with a channel above the servo range.
TmSequences ==
    [walk |-> << MotionFrame([i \in LegacyChannels |-> IF i = 0 THEN 3000 ELSE 1200], 50),
                 MotionFrame([i \in LegacyChannels |-> 1800], 100) >>]

hasSequence(name) == name \in DOMAIN TmSequences

MaxFrameMs == 100

\* MotionCommand, the fields the task manager reads.
MotionCommand(name, continuous) == [name |-> name, continuous |-> continuous]

TmCommands == { MotionCommand(n, c) : n \in {"walk", "bogus"}, c \in BOOLEAN }

NoCommand == MotionCommand("", FALSE)

\* MotionSequenceIterator; m_sequence "" is the null pointer.
createIterator(name) == [m_sequence |-> IF hasSequence(name) THEN name ELSE "", m_index |-> 0]

iterator_frames(it) == IF it.m_sequence = "" THEN <<>> ELSE TmSequences[it.m_sequence]

iterator_reset(it) == [it EXCEPT !.m_index = 0]

iterator_hasNext(it) == it.m_sequence # "" /\ it.m_index < Len(iterator_frames(it))

iterator_current(it) ==
    IF it.m_sequence = "" \/ it.m_index >= Len(iterator_frames(it))
    THEN MotionFrame([i \in LegacyChannels |-> 0], 0)
    ELSE iterator_frames(it)[it.m_index + 1]

iterator_next(it) == IF iterator_hasNext(it) THEN [it EXCEPT !.m_index = @ + 1] ELSE it

iterator_isComplete(it) == it.m_sequence = "" \/ it.m_index >= Len(iterator_frames(it))

convertLegacyToPose(frame) ==
    [c \in Channels |-> IF c < SERVO_COUNT_LEGS THEN clamp_servo_us(frame.servo_us[c])
                        ELSE IF c < SERVO_CHANNEL_SCAN THEN SERVO_PWM_NEUTRAL_US
                        ELSE SERVO_PWM_NEUTRAL_US]

\* posepacket31_init: crc16 is 0 until the sender computes it.
posepacket31_init(seq) ==
    PosePacket31(SPIDER_MAGIC, SPIDER_VERSION, seq, 0, {FLAG_CLAMP_ENABLE}, NeutralPose, "mismatch")

\* TaskManager after its constructor.  frame_started is m_frame_start_ms # 0,
\* frame_age is now - m_frame_start_ms, hb_age is now - m_last_heartbeat_ms.
TmAtRest ==
    /\ tm = [m_mode |-> "IDLE", m_command_queue |-> <<>>, m_packet_seq |-> 0,
             hb_age |-> 0, frame_started |-> FALSE, frame_age |-> 0,
             m_current_pose_us |-> NeutralPose, m_estop_active |-> FALSE,
             m_current_iterator |-> createIterator(""),
             m_current_sequence_name |-> "", m_sequence_continuous |-> FALSE]
    /\ tm_run = [cmd |-> NoCommand, frame_sends |-> 0, restarted |-> FALSE]

\* The packet bytes given to validate_packet on their own: nothing given yet.
CrAtRest ==
    /\ cr_bytes = <<>>
    /\ cr_bit = 0 - 1
    /\ cr_last_seq = 0
    /\ cr_rets = <<>>

\* watchdog.c after watchdog_init, the motion task waiting for a packet.
\* preempted_at is the position at which the watchdog task last ran.
WsAtRest ==
    ws = [s_state |-> "NORMAL", feed_age |-> 0, faults |-> {}, pc |-> "wait",
          current |-> "NORMAL", pkt_estop |-> FALSE, due |-> 0,
          estop_stored |-> FALSE, preempted_at |-> "wait"]

\* No command has stored to g_estop yet.
HcAtRest == hc_cmd = "none"

\* watchdog_feed has not just returned
NotFed == [s_state |-> "none", faults |-> {}]

\* watchdog_init: NORMAL, fed now
WfAtRest ==
    /\ wf = [s_state |-> "NORMAL", feed_age |-> 0]
    /\ wf_faults = {}
    /\ wf_before = NotFed

UnitsAtRest == ItAtRest /\ ClAtRest /\ ScAtRest /\ TmAtRest /\ CrAtRest /\ WsAtRest /\ HcAtRest /\ WfAtRest

\* ------------------------------------------------------------------ system


InitSys ==
    /\ build \in {"v1", "mt"}
    /\ wdg = [s_state |-> "NORMAL", feed_age |-> 0]
    /\ wd_pc = "sleep"
    /\ wd_due = 0
    /\ faults = {}
    /\ pwm = [c \in PwmChannels |->
                IF build = "v1" \/ c \in Channels THEN pca9685_pulse(SERVO_PWM_NEUTRAL_US)
                ELSE Unwritten]
    /\ fs_estop = FALSE
    /\ mt = [s_state |-> "IDLE", s_current_us |-> NeutralPose, s_target_us |-> NeutralPose]
    /\ interp = [s_start_us |-> ZeroPose, s_target_us |-> ZeroPose, s_duration_ms |-> 0,
                 s_elapsed_ms |-> 0, s_mode |-> "FLOAT", s_active |-> FALSE]
    /\ rx_last_seq = 0
    /\ motion_queue = <<>>
    /\ mt_due = 0
    /\ v1 = [g_last_seq |-> 0, g_estop_active |-> FALSE, g_shared_buf |-> TRUE]
    /\ v1_due = V1_RECEIVE_TIMEOUT_MS
    /\ shared = [write_idx |-> 0, read_idx |-> 0, flags |-> {"MUSCLE_READY"},
                 packets |-> [i \in 0 .. (PACKET_RING_SIZE - 1) |-> ZeroPacket]]
    /\ mbox = <<>>
    /\ gp = [g_estop |-> FALSE, m_seq |-> 0, hb_age |-> 0, mapped |-> "shm"]
    /\ gpw = [pc |-> "idle", write_idx |-> 0, pkt |-> ZeroPacket]
    /\ rt = [ctx \in RtContexts |-> [pc |-> "idle", read_idx |-> 0, write_idx |-> 0]]
    /\ preempted = "none"
    /\ push_log = <<>>
    /\ reads = [matched |-> 0, bad |-> NoRead]

Init == InitSys /\ UnitsAtRest

Next ==
    \/ WatchdogCheck
    \/ WatchdogEscalate
    \/ ClearEstop
    \/ \E pkt \in InputPackets(rx_last_seq) : RxPacket(pkt)
    \/ MotionTaskIter
    \/ MailboxHandler
    \/ V1MotionTask
    \/ \E t \in InputTms, values \in InputPoses : GP_CmdMove(t, values)
    \/ GP_CmdEstop
    \/ \E cmd \in {"stop", "resume", "clear_estop"} : GP_CmdUnlatch(cmd)
    \/ GP_TickHeartbeat
    \/ \E pkt \in InputPackets(v1.g_last_seq) : RingWriter(pkt)
    \/ AdvanceTime

Spec == Init /\ [][Next]_vars

\* The v1 build with the ring operations taken step by step.
InitRing == Init /\ build = "v1"

SpecRing == InitRing /\ [][NextRing]_vars

\* ------------------------------------------------------------------ shared region, start-up and ownership
\* The GP-side and RT-side operations on the SharedMotionBuffer header, each
\* taken whole: mapping and start-up on both sides, pushes by both GP-side
\* writers (SharedMemory of brain_linux/src, IpcMuscleRpmsg of the archived
\* daemon), the RT drain on a doorbell.
SharedFlags == {"BRAIN_READY", "MUSCLE_READY", "ESTOP", "OVERFLOW"}

\* Mailbox::sendCommand: the ioctl fails when the command queue has no room,
\* and the doorbell is not delivered.
sendCommand(mb, cmd_id, param) ==
    IF Len(mb) < MaxMbox THEN Append(mb, Doorbell(cmd_id, param)) ELSE mb

\* SharedMemory::map lines 46-50
SharedMemory_map(sh) ==
    [write_idx |-> 0, read_idx |-> 0, flags |-> {},
     packets |-> [i \in 0 .. (PACKET_RING_SIZE - 1) |-> ZeroPacket]]

\* IpcMuscleRpmsg::tryNativeCmdqu lines 124-127
tryNativeCmdqu(sh) ==
    [sh EXCEPT !.write_idx = 0, !.read_idx = 0, !.flags = {"BRAIN_READY"}]

\* IpcMuscleRpmsg::sendViaCmdqu lines 294-311: the region afterwards
sendViaCmdqu(sh, pkt) ==
    IF (sh.write_idx - sh.read_idx) >= PACKET_RING_SIZE
    THEN [sh EXCEPT !.flags = @ \cup {"OVERFLOW"}]
    ELSE [sh EXCEPT !.packets[shared_buffer_slot_index(sh.write_idx)] = pkt,
                    !.write_idx = sh.write_idx + 1]

\* BrainDaemon::init: m_shared_mem.map()
GP_Map ==
    /\ gp.mapped = "none"
    /\ shared' = SharedMemory_map(shared)
    /\ gp' = [gp EXCEPT !.mapped = "shm"]
    /\ UNCHANGED <<utVars, build, wdVars, faults, pwm, mtVars, v1, v1_due, mbox, ringVars>>

\* BrainDaemon::shutdown: m_shared_mem.unmap(); the process ends, and the next
\* one starts with m_seq = 0 and g_estop = false.
GP_Shutdown ==
    /\ gp.mapped = "shm"
    /\ gp' = [gp EXCEPT !.mapped = "none", !.m_seq = 0, !.g_estop = FALSE]
    /\ UNCHANGED <<utVars, build, wdVars, faults, pwm, mtVars, v1, v1_due, shared, mbox, ringVars>>

\* IpcMuscleRpmsg::init taking the native command queue
GP_TryNativeCmdqu ==
    /\ gp.mapped = "none"
    /\ shared' = tryNativeCmdqu(shared)
    /\ gp' = [gp EXCEPT !.mapped = "cmdqu"]
    /\ UNCHANGED <<utVars, build, wdVars, faults, pwm, mtVars, v1, v1_due, mbox, ringVars>>

\* IpcMuscleRpmsg::close
GP_CloseCmdqu ==
    /\ gp.mapped = "cmdqu"
    /\ shared' = [shared EXCEPT !.flags = @ \ {"BRAIN_READY"}]
    /\ gp' = [gp EXCEPT !.mapped = "none", !.m_seq = 0, !.g_estop = FALSE]
    /\ UNCHANGED <<utVars, build, wdVars, faults, pwm, mtVars, v1, v1_due, mbox, ringVars>>

\* BrainDaemon::sendPosePacket of a pose just built: writePacket, then the
\* doorbell when the push succeeded.
GP_Push(values) ==
    /\ gp.mapped = "shm"
    /\ gp.m_seq < MaxPush
    /\ shared.write_idx < MaxPush
    /\ gp' = [gp EXCEPT !.m_seq = @ + 1]
    /\ LET pkt == buildPosePacket(gp.m_seq + 1, 40, {FLAG_CLAMP_ENABLE}, values)
       IN  IF writePacket_ok(shared)
           THEN /\ shared' = writePacket(shared, pkt)
                /\ mbox' = sendCommand(mbox, GP_CMD_MOTION_PACKET, shared.write_idx + 1)
           ELSE UNCHANGED <<shared, mbox>>
    /\ UNCHANGED <<utVars, build, wdVars, faults, pwm, mtVars, v1, v1_due, ringVars>>

\* IpcMuscleRpmsg::send of a pose packet over the native command queue; the
\* caller numbers its packets as BrainDaemon does.
GP_SendViaCmdqu(values) ==
    /\ gp.mapped = "cmdqu"
    /\ gp.m_seq < MaxPush
    /\ shared.write_idx < MaxPush
    /\ gp' = [gp EXCEPT !.m_seq = @ + 1]
    /\ shared' = sendViaCmdqu(shared,
                     buildPosePacket(gp.m_seq + 1, 40, {FLAG_CLAMP_ENABLE}, values))
    /\ mbox' = IF (shared.write_idx - shared.read_idx) >= PACKET_RING_SIZE THEN mbox
               ELSE sendCommand(mbox, GP_CMD_MOTION_PACKET, shared.write_idx + 1)
    /\ UNCHANGED <<utVars, build, wdVars, faults, pwm, mtVars, v1, v1_due, ringVars>>

\* main_cvirtos lines 252-255: g_shared_buf set, read_idx = 0, MUSCLE_READY
RT_MainCvirtos ==
    /\ ~v1.g_shared_buf
    /\ v1' = [v1 EXCEPT !.g_shared_buf = TRUE]
    /\ shared' = [shared EXCEPT !.read_idx = 0, !.flags = @ \cup {"MUSCLE_READY"}]
    /\ UNCHANGED <<utVars, build, wdVars, faults, pwm, mtVars, v1_due, mbox, gp, ringVars>>

\* The command-queue task delivers doorbells once main_cvirtos has run.
RT_Mailbox ==
    /\ v1.g_shared_buf
    /\ MailboxHandler

GpStep ==
    \/ GP_Map
    \/ GP_Shutdown
    \/ GP_TryNativeCmdqu
    \/ GP_CloseCmdqu
    \/ \E values \in InputPoses : GP_Push(values)
    \/ \E values \in InputPoses : GP_SendViaCmdqu(values)

RtStep ==
    \/ RT_MainCvirtos
    \/ RT_Mailbox

NextShm ==
    \/ GP_Map
    \/ GP_Shutdown
    \/ GP_TryNativeCmdqu
    \/ GP_CloseCmdqu
    \/ \E values \in InputPoses : GP_Push(values)
    \/ \E values \in InputPoses : GP_SendViaCmdqu(values)
    \/ RT_MainCvirtos
    \/ RT_Mailbox

\* Power-up: neither side has touched the region, whose header holds what
\* the memory happens to hold; the PCA9685 is initialised and at neutral.
InitShm ==
    /\ build = "v1"
    /\ wdg = [s_state |-> "NORMAL", feed_age |-> 0]
    /\ wd_pc = "sleep"
    /\ wd_due = 0
    /\ faults = {}
    /\ pwm = [c \in PwmChannels |-> pca9685_pulse(SERVO_PWM_NEUTRAL_US)]
    /\ fs_estop = FALSE
    /\ mt = [s_state |-> "IDLE", s_current_us |-> NeutralPose, s_target_us |-> NeutralPose]
    /\ interp = [s_start_us |-> ZeroPose, s_target_us |-> ZeroPose, s_duration_ms |-> 0,
                 s_elapsed_ms |-> 0, s_mode |-> "FLOAT", s_active |-> FALSE]
    /\ rx_last_seq = 0
    /\ motion_queue = <<>>
    /\ mt_due = 0
    /\ v1 = [g_last_seq |-> 0, g_estop_active |-> FALSE, g_shared_buf |-> FALSE]
    /\ v1_due = V1_RECEIVE_TIMEOUT_MS
    /\ \E w \in 0 .. 1, r \in 0 .. 1, f \in {{}, SharedFlags} :
          shared = [write_idx |-> w, read_idx |-> r, flags |-> f,
                    packets |-> [i \in 0 .. (PACKET_RING_SIZE - 1) |-> ZeroPacket]]
    /\ mbox = <<>>
    /\ gp = [g_estop |-> FALSE, m_seq |-> 0, hb_age |-> 0, mapped |-> "none"]
    /\ gpw = [pc |-> "idle", write_idx |-> 0, pkt |-> ZeroPacket]
    /\ rt = [ctx \in RtContexts |-> [pc |-> "idle", read_idx |-> 0, write_idx |-> 0]]
    /\ preempted = "none"
    /\ push_log = <<>>
    /\ reads = [matched |-> 0, bad |-> NoRead]
    /\ UnitsAtRest

SpecShm == InitShm /\ [][NextShm]_vars

\* ------------------------------------------------------------------ doorbell loss
\* A MOTION_PACKET doorbell raised by the GP never reaches the RT handler.
LoseDoorbell ==
    /\ build = "v1"
    /\ mbox # <<>>
    /\ Head(mbox).cmd_id = GP_CMD_MOTION_PACKET
    /\ mbox' = Tail(mbox)
    /\ UNCHANGED <<utVars, build, wdVars, faults, pwm, mtVars, v1, v1_due, shared, gp, ringVars>>

NextLossy ==
    \/ WatchdogCheck
    \/ WatchdogEscalate
    \/ MailboxHandler
    \/ V1MotionTask
    \/ \E t \in InputTms, values \in InputPoses : GP_CmdMove(t, values)
    \/ GP_TickHeartbeat
    \/ AdvanceTime
    \/ LoseDoorbell

\* The v1 build with doorbells that can get lost.
SpecLossy == InitRing /\ [][NextLossy]_vars

\* ------------------------------------------------------------------ packet validation
\* Packets presented to RT validation whose last accepted seq is last_seq:
\* with the next seq a pose and a pose failing each one of the magic, version
\* and CRC checks; with seq = last_seq a pose that passes all three.
RxInputs(last_seq) ==
    (IF last_seq < MaxSeq
     THEN {ValidPacket(last_seq + 1, 40, {FLAG_CLAMP_ENABLE}, WildPose),
           PosePacket31(0, SPIDER_VERSION, last_seq + 1, 40,
                        {FLAG_CLAMP_ENABLE}, WildPose, "match"),
           PosePacket31(SPIDER_MAGIC, <<3, 0>>, last_seq + 1, 40,
                        {FLAG_CLAMP_ENABLE}, WildPose, "match"),
           PosePacket31(SPIDER_MAGIC, SPIDER_VERSION, last_seq + 1, 40,
                        {FLAG_CLAMP_ENABLE}, WildPose, "mismatch")}
     ELSE {})
    \cup {ValidPacket(last_seq, 40, {FLAG_CLAMP_ENABLE}, WildPose)}

NextRx ==
    \/ WatchdogCheck
    \/ WatchdogEscalate
    \/ \E pkt \in RxInputs(rx_last_seq) : RxPacket(pkt)
    \/ MotionTaskIter
    \/ MailboxHandler
    \/ V1MotionTask
    \/ \E pkt \in RxInputs(v1.g_last_seq) : RingWriter(pkt)
    \/ GP_TickHeartbeat
    \/ AdvanceTime

\* Both builds, fed with every kind of packet the validation tells apart.
SpecRx == Init /\ [][NextRx]_vars

\* A packet that fails the magic, version or CRC check, and the fault bit of
\* the first check it fails.
Malformed(pkt) ==
    pkt.magic # SPIDER_MAGIC \/ pkt.ver # SPIDER_VERSION \/ pkt.crc16 # "match"

FaultBitOf(pkt) ==
    IF pkt.magic # SPIDER_MAGIC THEN "PKT_MAGIC"
    ELSE IF pkt.ver # SPIDER_VERSION THEN "PKT_VERSION"
    ELSE "PKT_CRC"

\* A step of the v1 build that runs process_shared_buffer_packets over a
\* non-empty range.
V1DrainStep ==
    /\ build = "v1"
    /\ ~v1.g_estop_active
    /\ shared.read_idx # shared.write_idx
    /\ \/ MailboxHandler /\ Head(mbox).cmd_id = RT_CMD_MOTION_PACKET
       \/ V1MotionTask

\* The packets in the slots of the range [read_idx, write_idx).
PendingPackets ==
    {shared.packets[shared_buffer_slot_index(i)] :
        i \in shared.read_idx .. (shared.write_idx - 1)}

\* ------------------------------------------------------------------ properties
SafePose(p) == \A c \in Channels : p[c] = SERVO_PWM_NEUTRAL_US

\* C1: every pulse width written to a PWM channel, in either build and in any
\* motion or watchdog state, lies in [500, 2500] us, whatever servo_us values
\* the received packets carry.
PwmWithinLimits ==
    \A c \in PwmChannels :
        pwm[c] # Unwritten => SERVO_PWM_MIN_US <= pwm[c] /\ pwm[c] <= SERVO_PWM_MAX_US

\* A ring packet carrying 3000 us and 400 us has been accepted and applied:
\* the chip got 2500 us and 500 us.
PwmWithinLimits_witness ==
    /\ build = "v1"
    /\ \E i \in 0 .. (PACKET_RING_SIZE - 1) :
          /\ shared.packets[i].servo_us[0] > SERVO_PWM_MAX_US
          /\ shared.packets[i].servo_us[1] < SERVO_PWM_MIN_US
          /\ shared.packets[i].crc16 = "match"
          /\ v1.g_last_seq = shared.packets[i].seq
    /\ pwm[0] = SERVO_PWM_MAX_US
    /\ pwm[1] = SERVO_PWM_MIN_US

\* C2: once the RT side has accepted a packet with the ESTOP flag, every PWM
\* write to the 13 channels is 1500 us for as long as the ESTOP state lasts.
EstopHoldsSafePose ==
    (\/ build = "mt" /\ mt.s_state = "ESTOP" /\ wdg.s_state = "ESTOP"
     \/ build = "v1" /\ v1.g_estop_active)
    => SafePose(pwm)

\* C3: while the motion task is in ESTOP and no clear_estop call has returned
\* success (FAULT_ESTOP_ACTIVE is still set), a step never takes the motion
\* state out of ESTOP, and a step that consumes a packet changes no PWM output.
EstopIgnoresPackets ==
    [][(build = "mt" /\ mt.s_state = "ESTOP" /\ "ESTOP_ACTIVE" \in faults')
          => /\ mt'.s_state = "ESTOP"
             /\ (Len(motion_queue') < Len(motion_queue) => pwm' = pwm)]_vars

\* C4: the watchdog leaves ESTOP only to NORMAL and only by a clear_estop call
\* made while the last feed is less than 250 ms old; any other call leaves it
\* in ESTOP.
EstopLatched ==
    [][(wdg.s_state = "ESTOP" /\ wdg'.s_state # "ESTOP")
          => (wdg'.s_state = "NORMAL" /\ wdg.feed_age < HEARTBEAT_TIMEOUT_MS)]_vars

\* C5: when the RT mailbox handler takes the doorbell the GP sent for an
\* emergency stop, the RT side is in ESTOP and the servos are at the safe pose.
EstopDoorbellStops ==
    [][(build = "v1" /\ mbox # <<>> /\ Head(mbox).cmd_id = GP_CMD_ESTOP /\ mbox' = <<>>)
          => (v1'.g_estop_active /\ SafePose(pwm'))]_vars

\* C6: with the GP sending its heartbeat doorbell every 100 ms and no doorbell
\* lost, the watchdog never leaves NORMAL.
HeartbeatKeepsNormal == build = "v1" => wdg.s_state = "NORMAL"

TimeoutKeepsPwm ==
    [][(\/ wdg.s_state = "NORMAL" /\ wdg'.s_state = "TIMEOUT"
        \/ wdg.s_state = "TIMEOUT" /\ wdg'.s_state = "HOLD")
          => pwm' = pwm]_vars

\* C9: the RT drain reads the pushed packets exactly once each, in push order
\* and with the bytes the producer wrote, under any interleaving of the
\* producer's and the consumers' steps.
EveryPushReadOnceInOrder == reads.bad = NoRead

\* C10: 0 <= write_idx - read_idx <= 8 in every reachable state, under any
\* interleaving of GP pushes and RT drains.
RingOccupancyBounded ==
    /\ 0 <= shared.write_idx - shared.read_idx
    /\ shared.write_idx - shared.read_idx <= PACKET_RING_SIZE

\* C11: a push made while the ring holds 8 unread packets stores nothing and
\* leaves the OVERFLOW bit set in the shared flags word.
FullPushSetsOverflow ==
    [][((\/ \E values \in InputPoses : GP_Push(values)
         \/ \E values \in InputPoses : GP_SendViaCmdqu(values))
        /\ shared.write_idx - shared.read_idx = PACKET_RING_SIZE)
          => /\ shared'.write_idx = shared.write_idx
             /\ "OVERFLOW" \in shared'.flags]_vars

\* C12: with the drain callable from the mailbox handler and from the motion
\* task, neither index ever decreases and read_idx moves by exactly 1 at a time.
IndicesMonotonic ==
    [][/\ shared'.write_idx >= shared.write_idx
       /\ shared'.read_idx >= shared.read_idx
       /\ shared'.read_idx <= shared.read_idx + 1]_vars

\* C13: once the RT side runs, no GP-side operation, mapping and initialising
\* the region included, changes read_idx; and no RT-side operation changes
\* write_idx.
IndexOwnership ==
    [][/\ ((v1.g_shared_buf /\ GpStep) => shared'.read_idx = shared.read_idx)
       /\ (RtStep => shared'.write_idx = shared.write_idx)]_vars

\* C14: once the RT side runs, a GP-side operation leaves MUSCLE_READY and
\* ESTOP of the flags word as they were; and an RT-side operation leaves
\* BRAIN_READY and OVERFLOW as they were.
FlagOwnership ==
    [][/\ ((v1.g_shared_buf /\ GpStep) => shared'.flags \cap {"MUSCLE_READY", "ESTOP"}
                        = shared.flags \cap {"MUSCLE_READY", "ESTOP"})
       /\ (RtStep => shared'.flags \cap {"BRAIN_READY", "OVERFLOW"}
                        = shared.flags \cap {"BRAIN_READY", "OVERFLOW"})]_vars

\* C15: outside ESTOP, when the RT mailbox handler has taken a MOTION_PACKET
\* or a heartbeat doorbell from the GP, the whole range [read_idx, write_idx)
\* has been drained, whatever doorbells were lost before.
DoorbellOrHeartbeatDrains ==
    [][(/\ MailboxHandler
        /\ Head(mbox).cmd_id \in {GP_CMD_MOTION_PACKET, GP_CMD_HEARTBEAT}
        /\ ~v1.g_estop_active)
          => shared'.read_idx = shared'.write_idx]_vars

\* C16: the packets RT validation has accepted and queued for the motion task
\* carry strictly increasing seq values.
AcceptedSeqIncreasing ==
    \A i \in 1 .. (Len(motion_queue) - 1) :
        motion_queue[i].seq < motion_queue[i + 1].seq

\* C17: a packet failing the magic, version or CRC check sets the fault bit
\* of the check it fails and nothing else: no PWM write, no interpolation
\* started, nothing queued, last_seq as before, watchdog not fed.
MalformedPacketDropped ==
    [][/\ \A pkt \in RxInputs(rx_last_seq) :
             (Malformed(pkt) /\ RxPacket(pkt))
                => /\ faults' = faults \cup {FaultBitOf(pkt)}
                   /\ UNCHANGED <<pwm, interp, mt, motion_queue, rx_last_seq, wdg>>
       /\ (V1DrainStep /\ \A pkt \in PendingPackets : Malformed(pkt))
             => /\ faults' = faults \cup {FaultBitOf(pkt) : pkt \in PendingPackets}
                /\ UNCHANGED <<pwm, v1, wdg>>]_vars

\* Packets failing each of the three checks have reached the receiver of the
\* interpolating build: the three fault bits are set, nothing is queued, no
\* seq was accepted, the servos are where start-up put them and the watchdog
\* has not been fed since.
MalformedPacketDropped_witness ==
    /\ build = "mt"
    /\ {"PKT_MAGIC", "PKT_VERSION", "PKT_CRC"} \subseteq faults
    /\ rx_last_seq = 0
    /\ motion_queue = <<>>
    /\ ~interp.s_active
    /\ SafePose(pwm)
    /\ wdg.feed_age > 0

\* C19: a packet that passes the magic, version and CRC checks with
\* seq <= last_seq is dropped: nothing is queued, the PWM outputs and last_seq
\* stay as they are and the watchdog is not fed.
StalePacketDropped ==
    [][/\ \A pkt \in RxInputs(rx_last_seq) :
             (~Malformed(pkt) /\ pkt.seq <= rx_last_seq /\ RxPacket(pkt))
                => UNCHANGED <<pwm, motion_queue, rx_last_seq, wdg>>
       /\ (V1DrainStep /\ \A pkt \in PendingPackets :
                              ~Malformed(pkt) /\ pkt.seq <= v1.g_last_seq)
             => UNCHANGED <<pwm, v1, wdg>>]_vars

\* C18: when the RT processes a validated packet carrying the ESTOP flag it
\* enters ESTOP and the age of the watchdog's last feed is what it was: the
\* packet does not feed the watchdog.
EstopPacketDoesNotFeed ==
    [][/\ (/\ MotionTaskIter
           /\ motion_queue # <<>>
           /\ FLAG_ESTOP \in Head(motion_queue).flags)
             => /\ mt'.s_state = "ESTOP"
                /\ wdg'.feed_age = wdg.feed_age
       /\ (V1DrainStep /\ \A pkt \in PendingPackets :
                              /\ validate_packet(pkt, v1.g_last_seq) = 0
                              /\ FLAG_ESTOP \in pkt.flags)
             => /\ v1'.g_estop_active
                /\ wdg'.feed_age = wdg.feed_age]_vars

\* C20: every change of a PWM output is made by a step of the motion task.
OnlyMotionTaskWritesPwm ==
    [][pwm' # pwm => (MotionTaskIter \/ V1MotionTask)]_vars

\* ------------------------------------------------------------------ interpolator on its own
MaxTicks == 3300
LongDuration == 70000
FarTicks == 214748363

\* 0xFFFFFFF5 ms
FarDuration == 0 - 11

RisePose == [c \in Channels |-> IF c = 0 THEN 1000 ELSE IF c = 1 THEN 2000 ELSE 1500]
FallPose == [c \in Channels |-> IF c = 0 THEN 2000 ELSE IF c = 1 THEN 1000 ELSE 1500]
ItPoses == {RisePose, FallPose}

\* duration_ms and mode of the calls made; the float path is taken with
\* durations below 2^20 only.
ItInputs ==
    ({0, 1, 20, 30, 100} \X {"FLOAT", "Q16"}) \cup {<<LongDuration, "Q16">>, <<FarDuration, "Q16">>}

\* uint32_t 20 * k, for k up to 2^32 / 20
U32Times20(k) ==
    U32Add(U32Add(0, MOTION_UPDATE_PERIOD_MS * (k \div 2)), MOTION_UPDATE_PERIOD_MS * (k - (k \div 2)))

\* interpolator_start(start, target, duration_ms, mode), the caller's array
\* holding the start pose as in motion_task.c and in the tests.
IT_Start(start, target, duration_ms, mode) ==
    /\ ~it_statics.s_active
    /\ it_statics' = interpolator_start(start, target, duration_ms, mode)
    /\ it_output_us' = start
    /\ it_ticks' = 0
    /\ it_ret' = FALSE
    /\ UNCHANGED <<sysVars, itRest>>

\* one call of interpolator_tick(output_us)
IT_Tick ==
    /\ it_ticks < MaxTicks \/ it_ticks \in FarTicks .. (FarTicks + 2)
    /\ it_statics' = interpolator_tick_state(it_statics)
    /\ it_output_us' = interpolator_tick_out(it_statics, it_output_us)
    /\ it_ret' = interpolator_tick_done(it_statics)
    /\ it_ticks' = IF it_statics.s_active THEN it_ticks + 1 ELSE it_ticks
    /\ UNCHANGED <<sysVars, itRest>>

\* k calls of interpolator_tick right after interpolator_start, none of which
\* completes: each adds 20 ms to s_elapsed_ms, the last one sets output_us.
IT_TickMany(k) ==
    LET before == [it_statics EXCEPT !.s_elapsed_ms = U32Times20(k - 1)]
    IN  /\ it_statics.s_active
        /\ it_ticks = 0
        /\ ~interpolator_tick_done(before)
        /\ it_statics' = interpolator_tick_state(before)
        /\ it_output_us' = interpolator_tick_out(before, it_output_us)
        /\ it_ret' = interpolator_tick_done(before)
        /\ it_ticks' = k
        /\ UNCHANGED <<sysVars, itRest>>

NextInterp ==
    \/ \E start \in ItPoses, target \in ItPoses, dm \in ItInputs : IT_Start(start, target, dm[1], dm[2])
    \/ IT_Tick
    \/ \E k \in {FarTicks} : IT_TickMany(k)

InitInterp == Init /\ build = "mt"

SpecInterp == InitInterp /\ [][NextInterp]_vars

\* ------------------------------------------------------------------ interpolator with abort
\* duration_ms and mode of the calls made
ItAbortInputs == {0, 30, 100} \X {"FLOAT", "Q16"}

\* interpolator_abort
IT_Abort ==
    /\ it_statics' = [it_statics EXCEPT !.s_active = FALSE]
    /\ UNCHANGED <<it_output_us, it_ticks, it_ret, sysVars, itRest>>

NextAbort ==
    \/ \E start \in ItPoses, target \in ItPoses, dm \in ItAbortInputs :
           IT_Start(start, target, dm[1], dm[2])
    \/ IT_Tick
    \/ IT_Abort

SpecAbort == InitInterp /\ [][NextAbort]_vars

\* ------------------------------------------------------------------ clamp on its own

\* clamp_servo_us(cl_x)
CL_Call ==
    /\ cl_rets = <<>>
    /\ cl_rets' = <<clamp_servo_us(cl_x)>>
    /\ UNCHANGED <<sysVars, clRest, cl_x>>

\* clamp_servo_us applied to what it returned
CL_CallAgain ==
    /\ Len(cl_rets) = 1
    /\ cl_rets' = Append(cl_rets, clamp_servo_us(cl_rets[1]))
    /\ UNCHANGED <<sysVars, clRest, cl_x>>

NextClamp ==
    \/ CL_Call
    \/ CL_CallAgain

\* The argument is any uint16_t.
InitClamp ==
    /\ InitSys
    /\ build = "v1"
    /\ ItAtRest
    /\ ScAtRest
    /\ TmAtRest
    /\ CrAtRest
    /\ WsAtRest
    /\ HcAtRest
    /\ WfAtRest
    /\ cl_x \in 0 .. (U16 - 1)
    /\ cl_rets = <<>>

SpecClamp == InitClamp /\ [][NextClamp]_vars

\* ------------------------------------------------------------------ scan controller on its own
MaxScanSteps == 33
ScanDts == {20, 60}
ScanDistances == {250}

\* tick: period_ms
scan_period_ms(profile) == 1000 \div profile.rate_hz

\* Mutation of the bounce: the direction turns, the angle is not brought back.
scan_bounce_unclamped(angle, direction, profile) ==
    IF angle > profile.max_deg THEN [angle |-> angle, direction |-> 0 - 1]
    ELSE IF angle < profile.min_deg THEN [angle |-> angle, direction |-> 1]
    ELSE [angle |-> angle, direction |-> direction]

\* tick: bounce at limits
scan_bounce(angle, direction, profile) ==
    IF angle > profile.max_deg THEN [angle |-> profile.max_deg, direction |-> 0 - 1]
    ELSE IF angle < profile.min_deg THEN [angle |-> profile.min_deg, direction |-> 1]
    ELSE [angle |-> angle, direction |-> direction]

\* Mutation of the dwell: the reading is taken at the first tick after the step.
scan_dwell_over_at_once(since_dwell, profile) == TRUE

\* tick: now - m_dwell_start_ms >= dwell_ms
scan_dwell_over(since_dwell, profile) == since_dwell >= profile.dwell_ms

\* tick: update or add to scan data
scan_upsert(data, point) ==
    IF \E i \in 1 .. Len(data) : data[i].angle_deg = point.angle_deg
    THEN LET first == CHOOSE i \in 1 .. Len(data) :
                          /\ data[i].angle_deg = point.angle_deg
                          /\ \A j \in 1 .. (i - 1) : data[j].angle_deg # point.angle_deg
         IN  [data EXCEPT ![first] = point]
    ELSE Append(data, point)

\* ScanController::start
SC_Start ==
    /\ IF sc.m_running
       THEN UNCHANGED scVars
       ELSE /\ sc' = [sc EXCEPT !.m_running = TRUE,
                                !.m_current_angle = sc.m_profile.min_deg,
                                !.m_direction = 1,
                                !.m_scan_data = <<>>,
                                !.since_step = 0,
                                !.since_dwell = 0,
                                !.m_dwelling = TRUE]
            /\ sc_servo' = sc.m_profile.min_deg
            /\ sc_steps' = 0
            /\ sc_samples' = 0
            /\ UNCHANGED sc_point
    /\ UNCHANGED <<sysVars, scRest>>

\* ScanController::stop
SC_Stop ==
    /\ IF ~sc.m_running
       THEN UNCHANGED scVars
       ELSE /\ sc' = [sc EXCEPT !.m_running = FALSE, !.m_current_angle = 90]
            /\ sc_servo' = 90
            /\ UNCHANGED <<sc_point, sc_steps, sc_samples>>
    /\ UNCHANGED <<sysVars, scRest>>

\* ScanController::tick with period_ms as computed on entry, the distance
\* callback returning distance
SC_TickWith(distance, period_ms) ==
    /\ sc_steps < MaxScanSteps \/ sc.m_dwelling
    /\ IF ~sc.m_running
       THEN UNCHANGED scVars
       ELSE IF sc.m_dwelling
       THEN IF scan_dwell_over(sc.since_dwell, sc.m_profile)
            THEN LET point == [angle_deg |-> sc.m_current_angle, distance_mm |-> distance]
                 IN  /\ sc' = [sc EXCEPT !.m_dwelling = FALSE,
                                         !.m_scan_data = scan_upsert(@, point)]
                     /\ sc_point' = point
                     /\ sc_samples' = sc_samples + 1
                     /\ UNCHANGED <<sc_servo, sc_steps>>
            ELSE UNCHANGED scVars
       ELSE IF sc.since_step >= period_ms
       THEN LET b == scan_bounce(sc.m_current_angle + sc.m_direction * sc.m_profile.step_deg,
                                 sc.m_direction, sc.m_profile)
            IN  /\ sc' = [sc EXCEPT !.m_current_angle = b.angle,
                                    !.m_direction = b.direction,
                                    !.since_dwell = 0,
                                    !.m_dwelling = TRUE,
                                    !.since_step = 0]
                /\ sc_servo' = b.angle
                /\ sc_steps' = sc_steps + 1
                /\ sc_samples' = 0
                /\ UNCHANGED sc_point
       ELSE UNCHANGED scVars
    /\ UNCHANGED <<sysVars, scRest>>

\* ScanController::tick
SC_Tick(distance) == SC_TickWith(distance, scan_period_ms(sc.m_profile))

\* time passes between two calls from the main loop
SC_Advance(dt) ==
    /\ sc.since_step < scan_period_ms(sc.m_profile)
    /\ sc' = [sc EXCEPT !.since_step = Min2(@ + dt, scan_period_ms(sc.m_profile)),
                        !.since_dwell = Min2(@ + dt, scan_period_ms(sc.m_profile))]
    /\ UNCHANGED <<sc_servo, sc_point, sc_steps, sc_samples, sysVars, scRest>>

NextScan ==
    \/ SC_Start
    \/ SC_Stop
    \/ \E distance \in ScanDistances : SC_Tick(distance)
    \/ \E dt \in ScanDts : SC_Advance(dt)

InitScan == Init /\ build = "v1"

SpecScan == InitScan /\ [][NextScan]_vars

\* The main loop of the daemon calls tick() in every pass, about once a
\* millisecond, and its clock advances.
SpecScanLive ==
    /\ InitScan
    /\ [][NextScan]_vars
    /\ WF_vars(\E distance \in ScanDistances : SC_Tick(distance))
    /\ WF_vars(\E dt \in ScanDts : SC_Advance(dt))

\* tick() has moved the servo one step
ScanStepped == (\E distance \in ScanDistances : SC_Tick(distance)) /\ sc_steps' = sc_steps + 1

\* tick() has taken a range sample
ScanSampled == (\E distance \in ScanDistances : SC_Tick(distance)) /\ sc_samples' = sc_samples + 1

\* ------------------------------------------------------------------ scan controller under scan_start commands
\* BrainDaemon::handleScanCommand in front of the scan controller.  The
\* values parseJsonInt returns for the four profile keys, -1 for a key the
\* command does not have.
ScanMinDegs == {0 - 1, 170}
ScanMaxDegs == {0 - 1, 160}
ScanStepDegs == {0 - 1, 0}
ScanRateHzs == {0 - 1, 0}

\* Steps of one scan that are followed.
MaxScanCmdSteps == 3

\* handleScanCommand "scan_start": the profile with the keys given replaced
scan_start_profile(profile, min_deg, max_deg, step_deg, rate_hz) ==
    [profile EXCEPT !.min_deg = IF min_deg >= 0 THEN min_deg ELSE @,
                    !.max_deg = IF max_deg >= 0 THEN max_deg ELSE @,
                    !.step_deg = IF step_deg >= 0 THEN step_deg ELSE @,
                    !.rate_hz = IF rate_hz >= 0 THEN rate_hz ELSE @]

\* handleScanCommand "scan_start": setProfile, then start()
SC_ScanStart(min_deg, max_deg, step_deg, rate_hz) ==
    LET profile == scan_start_profile(sc.m_profile, min_deg, max_deg, step_deg, rate_hz)
    IN  /\ IF sc.m_running
           THEN /\ sc' = [sc EXCEPT !.m_profile = profile]
                /\ UNCHANGED <<sc_servo, sc_point, sc_steps, sc_samples>>
           ELSE /\ sc' = [sc EXCEPT !.m_profile = profile,
                                    !.m_running = TRUE,
                                    !.m_current_angle = profile.min_deg,
                                    !.m_direction = 1,
                                    !.m_scan_data = <<>>,
                                    !.since_step = 0,
                                    !.since_dwell = 0,
                                    !.m_dwelling = TRUE]
                /\ sc_servo' = profile.min_deg
                /\ sc_steps' = 0
                /\ sc_samples' = 0
                /\ UNCHANGED sc_point
        /\ UNCHANGED <<sysVars, scRest>>

\* What 1000 / 0 leaves in period_ms when it does not trap: any value; the
\* least one and one beyond every time since the last step stand for them.
ScanGarbagePeriods == {0, 2147483647}

\* tick() of a running scan whose rate_hz is 0: the division on entry is
\* undefined.  It traps and the daemon ends, or it yields some value and
\* the tick goes on with it.
SC_TickUndefined(distance) ==
    /\ sc.m_running
    /\ sc.m_profile.rate_hz = 0
    /\ \/ /\ sc' = [sc EXCEPT !.m_running = FALSE]
          /\ UNCHANGED <<sc_servo, sc_point, sc_steps, sc_samples, sysVars, scRest>>
       \/ \E period_ms \in ScanGarbagePeriods : SC_TickWith(distance, period_ms)

NextScanCmd ==
    \/ \E min_deg \in ScanMinDegs, max_deg \in ScanMaxDegs,
          step_deg \in ScanStepDegs, rate_hz \in ScanRateHzs :
              SC_ScanStart(min_deg, max_deg, step_deg, rate_hz)
    \/ SC_Stop
    \/ \E distance \in ScanDistances :
          /\ sc.m_profile.rate_hz # 0
          /\ sc_steps < MaxScanCmdSteps \/ sc.m_dwelling
          /\ SC_Tick(distance)
    \/ \E distance \in ScanDistances :
          /\ sc_steps < MaxScanCmdSteps \/ sc.m_dwelling
          /\ SC_TickUndefined(distance)
    \/ \E dt \in ScanDts : sc.m_profile.rate_hz # 0 /\ SC_Advance(dt)

SpecScanCmd == InitScan /\ [][NextScanCmd]_vars

\* ------------------------------------------------------------------ task manager on its own
\* The archived brain daemon: main() builds a TaskManager over the command
\* queue transport and calls tick() once a millisecond; the command server
\* calls queueMotion(), stop() and estop().  The real-time side is not
\* scheduled here, so the ring only fills.

\* The task manager's state together with the transport it sends through and
\* the observer tm_run: the command that started the running sequence, the
\* pose packets sent for the frame the iterator is at, and whether the last
\* tick restarted the sequence after its last frame.
TmState == [tm |-> tm, shared |-> shared, mbox |-> mbox, run |-> tm_run]

\* IpcMuscleRpmsg::send over the command queue: ring push, then doorbell.
muscle_send(s, pkt) ==
    [s EXCEPT !.shared = sendViaCmdqu(s.shared, pkt),
              !.mbox = IF (s.shared.write_idx - s.shared.read_idx) >= PACKET_RING_SIZE THEN @
                       ELSE sendCommand(@, GP_CMD_MOTION_PACKET, s.shared.write_idx + 1)]

tm_sendHeartbeat(s) ==
    LET pkt == [posepacket31_init(s.tm.m_packet_seq) EXCEPT
                    !.flags = {FLAG_CLAMP_ENABLE, FLAG_HOLD},
                    !.servo_us = s.tm.m_current_pose_us,
                    !.crc16 = "match"]
    IN muscle_send([s EXCEPT !.tm.m_packet_seq = @ + 1], pkt)

tm_sendPosePacket(s) ==
    LET it == s.tm.m_current_iterator
        pkt == [posepacket31_init(s.tm.m_packet_seq) EXCEPT
                    !.servo_us = s.tm.m_current_pose_us,
                    !.t_ms = IF iterator_hasNext(it) THEN iterator_current(it).t_ms ELSE 20,
                    !.flags = {FLAG_CLAMP_ENABLE},
                    !.crc16 = "match"]
    IN muscle_send([s EXCEPT !.tm.m_packet_seq = @ + 1, !.run.frame_sends = @ + 1], pkt)

tm_stop(s) == [s EXCEPT !.tm.m_command_queue = <<>>, !.tm.m_mode = "IDLE"]

tm_estop(s) ==
    LET s1 == tm_stop([s EXCEPT !.tm.m_estop_active = TRUE])
        pkt == [posepacket31_init(s1.tm.m_packet_seq) EXCEPT
                    !.flags = @ \cup {FLAG_ESTOP},
                    !.crc16 = "match"]
    IN muscle_send([s1 EXCEPT !.tm.m_packet_seq = @ + 1], pkt)

tm_startSequence(s, name) ==
    [s EXCEPT !.tm.m_current_iterator = createIterator(name),
              !.tm.m_current_sequence_name = name,
              !.tm.frame_started = FALSE]

tm_processMotionQueue(s) ==
    IF s.tm.m_command_queue = <<>> THEN s
    ELSE LET cmd == Head(s.tm.m_command_queue)
             s1 == [s EXCEPT !.tm.m_command_queue = Tail(@),
                             !.tm.m_sequence_continuous = cmd.continuous]
         IN IF hasSequence(cmd.name)
            THEN [tm_startSequence(s1, cmd.name) EXCEPT
                      !.tm.m_mode = "LEGACY_PRG",
                      !.run = [cmd |-> cmd, frame_sends |-> 0, restarted |-> FALSE]]
            ELSE s1

\* runLegacyProgram from the hasNext test on.
tm_runFrame(s) ==
    LET it == s.tm.m_current_iterator
        frame == iterator_current(it)
    IN IF ~iterator_hasNext(it) THEN s
       ELSE IF ~s.tm.frame_started
       THEN [tm_sendPosePacket([s EXCEPT !.tm.m_current_pose_us = convertLegacyToPose(frame)])
                EXCEPT !.tm.frame_started = TRUE, !.tm.frame_age = 0]
       ELSE IF s.tm.frame_age >= frame.t_ms
       THEN [s EXCEPT !.tm.m_current_iterator = iterator_next(it),
                      !.tm.frame_started = FALSE,
                      !.run.frame_sends = 0]
       ELSE s

tm_runLegacyProgram(s) ==
    IF iterator_isComplete(s.tm.m_current_iterator)
    THEN IF s.tm.m_sequence_continuous /\ s.tm.m_current_sequence_name # ""
         THEN tm_runFrame([s EXCEPT !.tm.m_current_iterator = iterator_reset(@),
                                    !.tm.frame_started = FALSE,
                                    !.run.frame_sends = 0,
                                    !.run.restarted = TRUE])
         ELSE [s EXCEPT !.tm.m_mode = "IDLE"]
    ELSE tm_runFrame(s)

tm_tick(s) ==
    LET s0 == [s EXCEPT !.run.restarted = FALSE]
        s1 == IF s0.tm.hb_age >= TM_HEARTBEAT_MS
              THEN [tm_sendHeartbeat(s0) EXCEPT !.tm.hb_age = 0]
              ELSE s0
        s2 == tm_processMotionQueue(s1)
    IN IF s2.tm.m_mode = "LEGACY_PRG" THEN tm_runLegacyProgram(s2) ELSE s2

TmBecomes(s) ==
    /\ tm' = s.tm
    /\ shared' = s.shared
    /\ mbox' = s.mbox
    /\ tm_run' = s.run
    /\ UNCHANGED <<tmRest, build, wdVars, faults, pwm, mtVars, v1, v1_due, gp, ringVars>>

\* One pass of main()'s loop.  Ticks that change nothing are left out.
TM_Tick ==
    /\ gp.mapped = "cmdqu"
    /\ tm.m_packet_seq < MaxTmSeq
    /\ tm_tick(TmState) # TmState
    /\ TmBecomes(tm_tick(TmState))

TM_QueueMotion(cmd) ==
    /\ gp.mapped = "cmdqu"
    /\ ~tm.m_estop_active
    /\ Len(tm.m_command_queue) < MaxTmQueue
    /\ TmBecomes([TmState EXCEPT !.tm.m_command_queue = Append(@, cmd)])

TM_Stop ==
    /\ gp.mapped = "cmdqu"
    /\ tm_stop(TmState) # TmState
    /\ TmBecomes(tm_stop(TmState))

TM_Estop ==
    /\ gp.mapped = "cmdqu"
    /\ tm.m_packet_seq < MaxTmSeq
    /\ TmBecomes(tm_estop(TmState))

TM_ClearEstop ==
    /\ gp.mapped = "cmdqu"
    /\ tm.m_estop_active
    /\ TmBecomes([TmState EXCEPT !.tm.m_estop_active = FALSE])

\* Time passes between two passes of the loop.
TM_Advance(dt) ==
    /\ gp.mapped = "cmdqu"
    /\ tm.hb_age < TM_HEARTBEAT_MS \/ (tm.frame_started /\ tm.frame_age < MaxFrameMs)
    /\ TmBecomes([TmState EXCEPT
           !.tm.hb_age = IF @ + dt > TM_HEARTBEAT_MS THEN TM_HEARTBEAT_MS ELSE @ + dt,
           !.tm.frame_age = IF ~tm.frame_started THEN @
                            ELSE IF @ + dt > MaxFrameMs THEN MaxFrameMs ELSE @ + dt])

NextTm ==
    \/ GP_TryNativeCmdqu
    \/ TM_Tick
    \/ \E cmd \in TmCommands : TM_QueueMotion(cmd)
    \/ TM_Stop
    \/ TM_Estop
    \/ TM_ClearEstop
    \/ \E dt \in TmDts : TM_Advance(dt)

SpecTm == InitShm /\ [][NextTm]_vars

\* ------------------------------------------------------------------ packet bytes on their own
\* common/crc16_ccitt_false.c over the 42 bytes of the packed little-endian
\* PosePacket31, and validate_packet of app_main_v1.c on these bytes.

CRC16_POLY == 4129
CRC16_INIT == 65535

RECURSIVE XorBits(_, _, _)
\* a ^ b on the low n bits
XorBits(a, b, n) ==
    IF n = 0 THEN 0
    ELSE (((a % 2) + (b % 2)) % 2) + 2 * XorBits(a \div 2, b \div 2, n - 1)

\* One pass of the inner loop: test bit 15, shift, fold the polynomial in.
crc16_shift(crc) ==
    IF crc >= 32768 THEN XorBits((crc * 2) % U16, CRC16_POLY, 16) ELSE (crc * 2) % U16

\* The crc is never negative; testing it makes each step's value be computed
\* before the next step is entered.
RECURSIVE crc16_shifts(_, _)
crc16_shifts(crc, j) == IF j = 0 \/ crc < 0 THEN crc ELSE crc16_shifts(crc16_shift(crc), j - 1)

RECURSIVE crc16_from(_, _, _)
crc16_from(data, i, crc) ==
    IF i > Len(data) \/ crc < 0 THEN crc
    ELSE crc16_from(data, i + 1, crc16_shifts(XorBits(crc, data[i] * 256, 16), 8))

\* Mutation: the CRC that never folds a byte in.
crc16_ccitt_false_init_only(data) == CRC16_INIT

crc16_ccitt_false(data) == crc16_from(data, 1, CRC16_INIT)

\* Bits of the flags field, bit 0 first; the bits without a name keep their number.
FlagNames ==
    << FLAG_ESTOP, FLAG_HOLD, FLAG_CLAMP_ENABLE, FLAG_INTERP_Q16, "BIT4", "SCAN_ENABLE",
       "BIT6", "BIT7", "BIT8", "BIT9", "BIT10", "BIT11", "BIT12", "BIT13", "BIT14", "BIT15" >>

RECURSIVE Pow2(_)
Pow2(n) == IF n = 0 THEN 1 ELSE 2 * Pow2(n - 1)

FlagBits(flags) ==
    LET RECURSIVE sum(_)
        sum(i) == IF i > 16 THEN 0
                  ELSE (IF FlagNames[i] \in flags THEN Pow2(i - 1) ELSE 0) + sum(i + 1)
    IN sum(1)

LE16(x) == << x % 256, x \div 256 >>

\* The four bytes of a uint32_t kept as the 32-bit integer with the same bits.
LE32(x) ==
    << x % 256, (x \div 256) % 256, (x \div U16) % 256, (x \div 16777216) % 256 >>

RECURSIVE ServoBytes(_, _)
ServoBytes(servo_us, c) ==
    IF c >= SERVO_COUNT_TOTAL THEN <<>> ELSE LE16(servo_us[c]) \o ServoBytes(servo_us, c + 1)

\* The first 40 bytes of the struct in memory.
PacketBody(pkt) ==
    LE16(pkt.magic) \o <<pkt.ver[1], pkt.ver[2]>> \o LE32(pkt.seq) \o LE32(pkt.t_ms)
        \o LE16(FlagBits(pkt.flags)) \o ServoBytes(pkt.servo_us, 0)

\* A packet as its sender leaves it: crc16 computed over the first 40 bytes.
PacketBytes(pkt) == PacketBody(pkt) \o LE16(crc16_ccitt_false(PacketBody(pkt)))

U16At(bytes, off) == bytes[off + 1] + 256 * bytes[off + 2]

U32At(bytes, off) ==
    bytes[off + 1] + 256 * bytes[off + 2] + U16 * bytes[off + 3]
        + 16777216 * (IF bytes[off + 4] >= 128 THEN bytes[off + 4] - 256 ELSE bytes[off + 4])

\* The struct the receiver reads from 42 bytes; crc16 says whether the stored
\* CRC equals the CRC computed over the first 40 bytes.
PacketOfBytes(bytes) ==
    PosePacket31(U16At(bytes, 0), <<bytes[3], bytes[4]>>, U32At(bytes, 4), U32At(bytes, 8),
                 { FlagNames[i] : i \in { k \in 1 .. 16 : (U16At(bytes, 12) \div Pow2(k - 1)) % 2 = 1 } },
                 [c \in Channels |-> U16At(bytes, 14 + 2 * c)],
                 IF crc16_ccitt_false(SubSeq(bytes, 1, 40)) = U16At(bytes, 40)
                 THEN "match" ELSE "mismatch")

FlipBit(bytes, k) ==
    LET i == (k \div 8) + 1
        w == Pow2(k % 8)
    IN [bytes EXCEPT ![i] = IF (@ \div w) % 2 = 1 THEN @ - w ELSE @ + w]

\* Well-formed packets: a pose, an ESTOP packet, a Q16 pose with a seq and
\* pulse widths that use the upper bytes.
CrPackets ==
    { ValidPacket(1, 100, {FLAG_CLAMP_ENABLE}, NeutralPose),
      ValidPacket(7, 0, {FLAG_CLAMP_ENABLE, FLAG_ESTOP}, NeutralPose),
      ValidPacket(70000, 300, {FLAG_CLAMP_ENABLE, FLAG_INTERP_Q16},
                  [c \in Channels |-> IF c % 2 = 0 THEN SERVO_PWM_MIN_US ELSE SERVO_PWM_MAX_US]) }

CrBits == 0 .. (8 * 40 - 1)

\* One bit of the first 40 bytes changes between sender and receiver.
CR_Flip(k) ==
    /\ cr_bit < 0
    /\ cr_rets = <<>>
    /\ cr_bytes' = FlipBit(cr_bytes, k)
    /\ cr_bit' = k
    /\ UNCHANGED <<cr_last_seq, cr_rets, sysVars, crRest>>

\* validate_packet on the bytes received.
CR_Validate ==
    /\ cr_rets = <<>>
    /\ cr_rets' = <<validate_packet(PacketOfBytes(cr_bytes), cr_last_seq)>>
    /\ UNCHANGED <<cr_bytes, cr_bit, cr_last_seq, sysVars, crRest>>

NextCrc ==
    \/ \E k \in CrBits : CR_Flip(k)
    \/ CR_Validate

InitCrc ==
    /\ InitSys
    /\ build = "v1"
    /\ ItAtRest
    /\ ClAtRest
    /\ ScAtRest
    /\ TmAtRest
    /\ WsAtRest
    /\ HcAtRest
    /\ WfAtRest
    /\ cr_bytes \in { PacketBytes(pkt) : pkt \in CrPackets }
    /\ cr_bit = 0 - 1
    /\ cr_last_seq \in {0, 3}
    /\ cr_rets = <<>>

SpecCrc == InitCrc /\ [][NextCrc]_vars

\* ------------------------------------------------------------------ properties of C21..C30

\* C21: every iteration of the motion task, whatever its state and whatever
\* packet it received, writes the 13 channels once from s_current_us and then
\* waits for the next 20 ms boundary.
EveryIterationWritesPwm ==
    [][MotionTaskIter => (pwm' = WritePose(pwm, mt'.s_current_us)
                          /\ mt_due' = MOTION_UPDATE_PERIOD_MS)]_vars

\* ticks after which elapsed time reaches duration_ms: max(1, ceil(duration_ms / 20))
TicksToComplete(duration_ms) ==
    IF duration_ms >= 0
    THEN (IF duration_ms = 0 THEN 1 ELSE (duration_ms + (MOTION_UPDATE_PERIOD_MS - 1)) \div MOTION_UPDATE_PERIOD_MS)
    ELSE (I32_MAX \div 10) + (0 - ((0 - (duration_ms + 16)) \div MOTION_UPDATE_PERIOD_MS))

\* C22: after interpolator_start with any poses and any duration_ms,
\* interpolator_tick returns false on every tick before tick
\* max(1, ceil(duration_ms / 20)) and true on that tick, where the output is the
\* target pose exactly, in float and in Q16 mode.
TickCompletesOnTime ==
    LET n == TicksToComplete(it_statics.s_duration_ms)
    IN  /\ (it_ticks >= 1 /\ it_ticks < n) => it_ret = FALSE
        /\ it_ticks = n => (it_ret = TRUE /\ it_output_us = it_statics.s_target_us)

Between(a, x, b) == (a <= x /\ x <= b) \/ (b <= x /\ x <= a)

\* C23: in the Q16 path every tick moves each channel's output from its last
\* value towards the target, never outside the interval between start and target.
Q16OutputMonotonic ==
    [][(IT_Tick /\ it_statics.s_active /\ it_statics.s_mode = "Q16")
        => \A c \in Channels :
              /\ Between(it_output_us[c], it_output_us'[c], it_statics.s_target_us[c])
              /\ Between(it_statics.s_start_us[c], it_output_us'[c], it_statics.s_target_us[c])]_vars

\* C29: clamp_servo_us is saturating and idempotent: for every 16-bit x the
\* result lies in [500, 2500], is x itself inside that range, 500 below it,
\* 2500 above it, and clamping the result again returns the same value.
ClampSaturatingIdempotent ==
    /\ Len(cl_rets) >= 1 =>
          /\ cl_rets[1] >= SERVO_PWM_MIN_US /\ cl_rets[1] <= SERVO_PWM_MAX_US
          /\ (cl_x >= SERVO_PWM_MIN_US /\ cl_x <= SERVO_PWM_MAX_US) => cl_rets[1] = cl_x
          /\ cl_x < SERVO_PWM_MIN_US => cl_rets[1] = SERVO_PWM_MIN_US
          /\ cl_x > SERVO_PWM_MAX_US => cl_rets[1] = SERVO_PWM_MAX_US
    /\ Len(cl_rets) >= 2 => cl_rets[2] = cl_rets[1]

\* The largest 16-bit value has been clamped, and its result clamped again.
ClampSaturatingIdempotent_witness ==
    /\ cl_x = U16 - 1
    /\ cl_rets = <<SERVO_PWM_MAX_US, SERVO_PWM_MAX_US>>

\* C26: with min 20, max 160, step 10 and a scan started by start(), step k
\* commands 20+10k for k <= 14, step 15 reverses the direction at the limit
\* and step 16 commands 150; a step never moves the angle by more than
\* step_deg, the direction changes only at a limit, there without moving, and
\* the step that follows a reversal keeps the new direction.
ScanBounceOnce ==
    [][ScanStepped =>
          LET p == sc.m_profile
              k == sc_steps'
              a == sc.m_current_angle
              b == sc'.m_current_angle
          IN  /\ sc_servo' = b
              /\ k <= 14 => (b = p.min_deg + p.step_deg * k /\ sc'.m_direction = 1)
              /\ k = 15 => (b = p.max_deg /\ sc.m_direction = 1 /\ sc'.m_direction = 0 - 1)
              /\ k = 16 => b = 150
              /\ b - a <= p.step_deg /\ a - b <= p.step_deg
              /\ sc'.m_direction # sc.m_direction => (b = a /\ b \in {p.min_deg, p.max_deg})
              /\ (a = p.max_deg /\ sc.m_direction = 0 - 1) => (b = a - p.step_deg /\ sc'.m_direction = 0 - 1)
              /\ (a = p.min_deg /\ sc.m_direction = 1) => (b = a + p.step_deg /\ sc'.m_direction = 1)]_vars

\* The sweep has bounced at 160 and at 20 and is on its way up again.
ScanBounceOnce_witness ==
    /\ sc.m_running
    /\ sc_steps = 31
    /\ sc.m_current_angle = 30
    /\ sc.m_direction = 1
    /\ sc_servo = 30

\* C27: tick() makes a servo step only when not dwelling and after exactly one
\* range sample was taken since the step before (start()'s positioning
\* included); a sample is taken only after the dwell time, is the first since
\* the step, and is recorded for the angle that step commanded; and while the
\* scan runs every step is followed by its sample.
ScanStepSampledOnce ==
    /\ [][/\ ScanStepped => (~sc.m_dwelling /\ sc_samples = 1)
          /\ ScanSampled =>
                /\ sc_samples = 0
                /\ sc.since_dwell >= sc.m_profile.dwell_ms
                /\ sc_point'.angle_deg = sc_servo
                /\ \E i \in 1 .. Len(sc'.m_scan_data) : sc'.m_scan_data[i] = sc_point'
                /\ \A i, j \in 1 .. Len(sc'.m_scan_data) :
                      sc'.m_scan_data[i].angle_deg = sc'.m_scan_data[j].angle_deg => i = j]_vars
    /\ (sc.m_running /\ sc_samples = 0) ~> (sc_samples = 1 \/ ~sc.m_running)

\* A step made by tick() has been sampled: the reading is recorded for 40
\* degrees, the second step's angle, and the servo has not moved since.
ScanStepSampledOnce_witness ==
    /\ sc.m_running
    /\ sc_steps = 2
    /\ sc_samples = 1
    /\ ~sc.m_dwelling
    /\ sc_point = [angle_deg |-> 40, distance_mm |-> 250]
    /\ sc_servo = 40
    /\ Len(sc.m_scan_data) = 3

\* C24: every packet the GP side pushes into the ring carries a seq that is
\* non-zero and greater than the seq of every packet pushed before it,
\* whichever part of the GP side composed it (pose, heartbeat, ESTOP).
PushedSeqNonZeroIncreasing ==
    gp.mapped = "cmdqu" =>
        \A i \in 0 .. (shared.write_idx - 1) :
            /\ shared.packets[shared_buffer_slot_index(i)].seq # 0
            /\ \A j \in 0 .. (i - 1) :
                   shared.packets[shared_buffer_slot_index(j)].seq
                       < shared.packets[shared_buffer_slot_index(i)].seq

\* C25: while the GP-side ESTOP latch is set, every packet pushed into the
\* ring carries the ESTOP flag.
EstopLatchedPushesCarryEstop ==
    [][(gp.mapped = "cmdqu" /\ tm'.m_estop_active) =>
          \A i \in shared.write_idx .. (shared'.write_idx - 1) :
              FLAG_ESTOP \in shared'.packets[shared_buffer_slot_index(i)].flags]_vars

\* The running sequence has passed its last frame and the tick takes no
\* command that starts another one.
TmSequenceOver ==
    /\ tm.m_mode = "LEGACY_PRG"
    /\ iterator_isComplete(tm.m_current_iterator)
    /\ tm.m_command_queue = <<>> \/ ~hasSequence(Head(tm.m_command_queue).name)

\* At most one pose packet is sent for the frame the iterator is at.
TmOnePosePerFrame == tm_run.frame_sends <= 1

\* A pose packet pushed by a step carries the frame the iterator is at.
TmPoseIsCurrentFrame ==
    \A i \in shared.write_idx .. (shared'.write_idx - 1) :
        LET pkt == shared'.packets[shared_buffer_slot_index(i)]
            frame == iterator_current(tm'.m_current_iterator)
        IN pkt.flags = {FLAG_CLAMP_ENABLE} =>
               /\ iterator_hasNext(tm'.m_current_iterator)
               /\ pkt.servo_us = convertLegacyToPose(frame)
               /\ pkt.t_ms = frame.t_ms
               /\ tm_run'.frame_sends = 1

\* The iterator moves to the next frame only after the frame's pose packet
\* was sent and the frame's t_ms has passed.
TmAdvanceAfterFrameTime ==
    tm'.m_current_iterator.m_index = tm.m_current_iterator.m_index + 1 =>
        /\ tm_run.frame_sends = 1
        /\ tm.frame_started
        /\ tm.frame_age >= iterator_current(tm.m_current_iterator).t_ms

\* After the last frame the tick restarts the sequence if the command that
\* started it is continuous and returns to IDLE if it is not.
TmAfterLastFrame ==
    (TM_Tick /\ TmSequenceOver) =>
        IF tm_run.cmd.continuous
        THEN /\ tm_run'.restarted
             /\ tm'.m_mode = "LEGACY_PRG"
             /\ tm'.m_current_iterator.m_index = 0
        ELSE /\ ~tm_run'.restarted
             /\ tm'.m_mode = "IDLE"

\* C28: for a queued command naming a loaded sequence the task manager sends
\* one pose packet per frame, in frame order, moves to the next frame only
\* after the frame's t_ms has passed, and after the last frame returns to
\* IDLE if the command is not continuous and restarts from the first frame
\* if it is.
SequencePlayedFrameByFrame ==
    [][/\ TmOnePosePerFrame'
       /\ TmPoseIsCurrentFrame
       /\ TmAdvanceAfterFrameTime
       /\ TmAfterLastFrame]_vars

\* The bit changed lies in the magic (bytes 0-1), in the version (bytes 2-3)
\* or in the rest of the first 40 bytes.
FlippedField == IF cr_bit < 16 THEN "magic" ELSE IF cr_bit < 32 THEN "version" ELSE "body"

\* C30 as stated: a well-formed packet with any single bit of its first 40
\* bytes changed is rejected by validate_packet with the CRC error (-3, the
\* PKT_CRC fault).
BitFlipRejectedAsBadCrc ==
    (cr_bit >= 0 /\ cr_rets # <<>>) =>
        /\ cr_rets[1] = 0 - 3
        /\ FaultBitOf(PacketOfBytes(cr_bytes)) = "PKT_CRC"

\* C30 amended: a well-formed packet with any single bit of its first 40
\* bytes changed is rejected by validate_packet: with the magic error when
\* the bit lies in the magic, with the version error when it lies in the
\* version bytes, and with the CRC error for every other bit.  Unchanged, the
\* packet is not rejected as malformed.
BitFlipRejected ==
    cr_rets # <<>> =>
        LET pkt == PacketOfBytes(cr_bytes)
        IN IF cr_bit < 0 THEN ~Malformed(pkt) /\ cr_rets[1] \in {0, 0 - 4}
           ELSE /\ Malformed(pkt)
                /\ FlippedField = "magic" => cr_rets[1] = 0 - 1 /\ FaultBitOf(pkt) = "PKT_MAGIC"
                /\ FlippedField = "version" => cr_rets[1] = 0 - 2 /\ FaultBitOf(pkt) = "PKT_VERSION"
                /\ FlippedField = "body" => cr_rets[1] = 0 - 3 /\ FaultBitOf(pkt) = "PKT_CRC"

\* Bit 0 of byte 20 of the neutral pose with seq 1 and t_ms 100 was changed
\* and the packet was rejected with the CRC error.
BitFlipRejected_witness ==
    /\ cr_bit = 160
    /\ cr_bytes = FlipBit(PacketBytes(ValidPacket(1, 100, {FLAG_CLAMP_ENABLE}, NeutralPose)), 160)
    /\ cr_bytes[21] = 221
    /\ cr_rets = <<0 - 3>>

\* ------------------------------------------------------------------ watchdog, statement by statement
\* The interpolating build on its single core: the motion task calls
\* watchdog_feed and then, for an ESTOP packet, watchdog_signal_estop
\* (motion_task.c 69-74); the watchdog task has the highest priority, so one
\* pass of its loop runs whole, at whichever statement the motion task is.
\* Nothing in the sources calls watchdog_clear_estop.

\* Mutation: the feed restores NORMAL from every other state.
feed_restores_any(current) == current # "NORMAL"

\* watchdog_feed: the test on the state loaded
feed_restores(current) == current \in {"TIMEOUT", "HOLD"}

\* xQueueReceive returned a packet; watchdog_feed stores s_last_feed_tick.
WS_Receive(estop) ==
    /\ ws.pc = "wait"
    /\ ws' = [ws EXCEPT !.feed_age = 0, !.pkt_estop = estop, !.pc = "feed_load"]
    /\ UNCHANGED <<sysVars, wsRest>>

\* watchdog_feed: current = atomic_load(&s_state)
WS_FeedLoad ==
    /\ ws.pc = "feed_load"
    /\ ws' = [ws EXCEPT !.current = ws.s_state, !.pc = "feed_store"]
    /\ UNCHANGED <<sysVars, wsRest>>

\* watchdog_feed: the store of NORMAL and the fault cleared, on the state
\* loaded before; then the packet's ESTOP flag is looked at.
WS_FeedStore ==
    /\ ws.pc = "feed_store"
    /\ ws' = [ws EXCEPT
                 !.s_state = IF feed_restores(ws.current) THEN "NORMAL" ELSE @,
                 !.faults = IF feed_restores(ws.current) THEN @ \ {"HEARTBEAT_TIMEOUT"} ELSE @,
                 !.pc = IF ws.pkt_estop THEN "estop_store" ELSE "wait"]
    /\ UNCHANGED <<sysVars, wsRest>>

\* watchdog_signal_estop: atomic_store(&s_state, WATCHDOG_STATE_ESTOP)
WS_EstopStore ==
    /\ ws.pc = "estop_store"
    /\ ws' = [ws EXCEPT !.s_state = "ESTOP", !.estop_stored = TRUE, !.pc = "estop_fault"]
    /\ UNCHANGED <<sysVars, wsRest>>

\* watchdog_signal_estop: the fault set and the callback
WS_EstopFault ==
    /\ ws.pc = "estop_fault"
    /\ ws' = [ws EXCEPT !.faults = @ \cup {"ESTOP_ACTIVE"}, !.pc = "wait"]
    /\ UNCHANGED <<sysVars, wsRest>>

\* One pass of the loop of watchdog_task_entry.
WS_Tick ==
    /\ ws.due = 0
    /\ LET current == ws.s_state
           timed_out == current = "NORMAL" /\ watchdog_expired(ws.feed_age)
           s1 == IF current # "ESTOP" /\ timed_out THEN "TIMEOUT" ELSE current
           s2 == IF current # "ESTOP" /\ watchdog_expired(ws.feed_age) /\ s1 = "TIMEOUT"
                 THEN "HOLD" ELSE s1
       IN ws' = [ws EXCEPT !.s_state = s2,
                           !.faults = IF timed_out THEN @ \cup {"HEARTBEAT_TIMEOUT"} ELSE @,
                           !.due = WATCHDOG_CHECK_PERIOD_MS,
                           !.preempted_at = ws.pc]
    /\ UNCHANGED <<sysVars, wsRest>>

\* Time passes to the watchdog task's next wake, the motion task being
\* anywhere.
WS_Advance ==
    /\ ws.due > 0
    /\ ws' = [ws EXCEPT !.feed_age = Min2(@ + ws.due, MaxAge), !.due = 0]
    /\ UNCHANGED <<sysVars, wsRest>>

NextWd ==
    \/ \E estop \in BOOLEAN : WS_Receive(estop)
    \/ WS_FeedLoad
    \/ WS_FeedStore
    \/ WS_EstopStore
    \/ WS_EstopFault
    \/ WS_Tick
    \/ WS_Advance

InitWd == Init /\ build = "mt"

SpecWd == InitWd /\ [][NextWd]_vars

\* ------------------------------------------------------------------ interpolating build: ring drain
\* The interpolating build fed through the ring: the GP side pushes packets,
\* rpmsg_motion_process_cmd drains the ring into the motion queue when the
\* doorbell is taken, motion_task_entry takes one packet per iteration.

MaxDrainPush == 5

\* validate_and_queue_packet on the receiver's state st: s_last_seq, the
\* motion queue, the faults.
validate_and_queue_packet(st, pkt) ==
    LET ret == validate_and_queue_ret(pkt, st.s_last_seq, Len(st.queue))
    IN [st EXCEPT !.faults = validate_faults(ret, @),
                  !.s_last_seq = IF ret \in {0, 0 - 5} THEN pkt.seq ELSE @,
                  !.queue = IF ret = 0 THEN Append(@, pkt) ELSE @]

RECURSIVE process_cmd_loop(_, _, _, _)
\* The while loop of rpmsg_motion_process_cmd from read_idx to the write_idx
\* read on entry.
process_cmd_loop(sh, read_idx, write_idx, st) ==
    IF read_idx = write_idx THEN st
    ELSE process_cmd_loop(sh, read_idx + 1, write_idx,
             validate_and_queue_packet(st, sh.packets[shared_buffer_slot_index(read_idx)]))

RECURSIVE ring_validated(_, _, _, _)
\* The packets of the ring from read_idx to write_idx that pass the checks of
\* magic, version, CRC and seq, in ring order.
ring_validated(sh, read_idx, write_idx, last_seq) ==
    IF read_idx = write_idx THEN <<>>
    ELSE LET pkt == sh.packets[shared_buffer_slot_index(read_idx)]
         IN IF validate_packet(pkt, last_seq) = 0
            THEN <<pkt>> \o ring_validated(sh, read_idx + 1, write_idx, pkt.seq)
            ELSE ring_validated(sh, read_idx + 1, write_idx, last_seq)

\* The GP side pushes its next packet and rings the doorbell.
DR_Push(flags) ==
    /\ build = "mt"
    /\ gp.m_seq < MaxDrainPush
    /\ gp' = [gp EXCEPT !.m_seq = @ + 1]
    /\ LET pkt == buildPosePacket(gp.m_seq + 1, 40, flags, WildPose)
       IN  IF writePacket_ok(shared)
           THEN /\ shared' = writePacket(shared, pkt)
                /\ mbox' = sendCommand(mbox, GP_CMD_MOTION_PACKET, shared.write_idx + 1)
           ELSE UNCHANGED <<shared, mbox>>
    /\ UNCHANGED <<utVars, build, wdVars, faults, pwm, mtVars, v1, v1_due, ringVars>>

\* rpmsg_motion_process_cmd, called with the doorbell taken from the mailbox.
MT_ProcessCmd ==
    /\ build = "mt"
    /\ wd_pc = "sleep"
    /\ mbox # <<>>
    /\ mbox' = Tail(mbox)
    /\ IF Head(mbox).cmd_id # GP_CMD_MOTION_PACKET
       THEN UNCHANGED <<shared, rx_last_seq, motion_queue, faults>>
       ELSE LET st == process_cmd_loop(shared, shared.read_idx, shared.write_idx,
                          [s_last_seq |-> rx_last_seq, queue |-> motion_queue, faults |-> faults])
            IN /\ shared' = [shared EXCEPT !.read_idx = shared.write_idx]
               /\ rx_last_seq' = st.s_last_seq
               /\ motion_queue' = st.queue
               /\ faults' = st.faults
    /\ UNCHANGED <<utVars, build, ringVars, wdVars, pwm, mt, interp, mt_due, fs_estop, v1, v1_due, gp>>

NextDrain ==
    \/ \E flags \in {{FLAG_CLAMP_ENABLE}, {FLAG_CLAMP_ENABLE, FLAG_ESTOP}} : DR_Push(flags)
    \/ MT_ProcessCmd
    \/ MotionTaskIter
    \/ WatchdogCheck
    \/ WatchdogEscalate
    \/ AdvanceTime

InitDrain == Init /\ build = "mt"

SpecDrain == InitDrain /\ [][NextDrain]_vars

\* ------------------------------------------------------------------ daemon commands and the ESTOP latch
\* BrainDaemon::handleCommand and the serial callbacks, with the command
\* that last stored to g_estop kept in hc_cmd.

\* handleCommand "estop" (src = "estop") and onSerialEstop (src =
\* "serial_estop"): store true, ring the ESTOP doorbell.
HC_Estop(src) ==
    /\ build = "v1"
    /\ src \in {"estop", "serial_estop"}
    /\ mbox = <<>>
    /\ gp' = [gp EXCEPT !.g_estop = TRUE]
    /\ mbox' = Append(mbox, Doorbell(GP_CMD_ESTOP, 0))
    /\ hc_cmd' = src
    /\ UNCHANGED <<hcRest, build, ringVars, wdVars, faults, pwm, mtVars, v1, v1_due, shared>>

\* handleCommand "stop", "resume" / "clear_estop" and onSerialResume (cmd =
\* "serial_resume"): each of them stores false to g_estop.
HC_Unlatch(cmd) ==
    /\ build = "v1"
    /\ cmd \in {"stop", "resume", "clear_estop", "serial_resume"}
    /\ gp' = [gp EXCEPT !.g_estop = FALSE]
    /\ hc_cmd' = cmd
    /\ UNCHANGED <<hcRest, build, ringVars, wdVars, faults, pwm, mtVars, v1, v1_due, shared, mbox>>

NextCmd ==
    \/ \E src \in {"estop", "serial_estop"} : HC_Estop(src)
    \/ \E cmd \in {"stop", "resume", "clear_estop", "serial_resume"} : HC_Unlatch(cmd)
    \/ \E t \in InputTms, values \in InputPoses : GP_CmdMove(t, values)
    \/ GP_TickHeartbeat
    \/ MailboxHandler
    \/ V1MotionTask
    \/ WatchdogCheck
    \/ WatchdogEscalate
    \/ AdvanceTime

InitCmd == Init /\ build = "v1"

SpecCmd == InitCmd /\ [][NextCmd]_vars

\* The RT side keeps running: its tasks are scheduled by FreeRTOS whenever
\* they are ready, and time passes.  The daemon's main loop keeps calling
\* tickHeartbeat; no command is assumed to arrive.
SpecCmdLive ==
    /\ SpecCmd
    /\ WF_vars(GP_TickHeartbeat)
    /\ WF_vars(MailboxHandler)
    /\ WF_vars(V1MotionTask)
    /\ WF_vars(WatchdogCheck)
    /\ WF_vars(WatchdogEscalate)
    /\ WF_vars(AdvanceTime)

\* ------------------------------------------------------------------ watchdog_feed on its own
WatchdogStates == {"NORMAL", "TIMEOUT", "HOLD", "ESTOP"}

\* A call of watchdog_feed.
FD_Feed ==
    /\ wf' = watchdog_feed(wf)
    /\ wf_faults' = watchdog_feed_faults(wf, wf_faults)
    /\ wf_before' = [s_state |-> wf.s_state, faults |-> wf_faults]
    /\ UNCHANGED <<sysVars, wfRest>>

\* A check period passes without a call.
FD_Elapse ==
    /\ wf.feed_age < MaxAge
    /\ wf' = [wf EXCEPT !.feed_age = Min2(@ + WATCHDOG_CHECK_PERIOD_MS, MaxAge)]
    /\ wf_before' = NotFed
    /\ UNCHANGED <<sysVars, wfRest, wf_faults>>

NextFeed ==
    \/ FD_Feed
    \/ FD_Elapse

\* The call finds the watchdog in any of its states, with any of the two
\* fault flags the watchdog sets.
InitFeed ==
    /\ InitSys
    /\ build = "mt"
    /\ ItAtRest
    /\ ClAtRest
    /\ ScAtRest
    /\ TmAtRest
    /\ CrAtRest
    /\ WsAtRest
    /\ HcAtRest
    /\ wf \in [s_state : WatchdogStates, feed_age : {0}]
    /\ wf_faults \in SUBSET {"HEARTBEAT_TIMEOUT", "ESTOP_ACTIVE"}
    /\ wf_before = NotFed

SpecFeed == InitFeed /\ [][NextFeed]_vars

\* ------------------------------------------------------------------ properties of C31..C40

ValidatedPacketsDelivered ==
    [][/\ MT_ProcessCmd =>
             motion_queue' = motion_queue \o
                 ring_validated(shared, shared.read_idx, shared.write_idx, rx_last_seq)
       /\ (MotionTaskIter /\ motion_queue # <<>>) =>
             /\ motion_queue' = Tail(motion_queue)
             /\ FLAG_ESTOP \in Head(motion_queue).flags =>
                    mt'.s_state = "ESTOP" /\ wdg'.s_state = "ESTOP"]_vars

\* C33: on the GP side the ESTOP latch, once set, is cleared only by a resume
\* or clear_estop command or by a serial RESUME: a step that takes g_estop
\* from true to false is the handling of one of these, and handling a stop
\* command leaves a set latch set.
LatchClearedOnlyByResume ==
    [][(gp.g_estop /\ ~gp'.g_estop) =>
           hc_cmd' \in {"resume", "clear_estop", "serial_resume"}]_vars

\* C34: after the GP daemon has started again with the RT side still running,
\* the first packet it pushes is accepted: when the RT drains a ring that the
\* mapping has re-zeroed and that holds the daemon's packet seq 1 and nothing
\* else, the packet is applied and becomes the last accepted one.
FirstPacketAfterRestartAccepted ==
    [][(/\ RT_Mailbox
        /\ Head(mbox).cmd_id = GP_CMD_MOTION_PACKET
        /\ ~v1.g_estop_active
        /\ gp.mapped = "shm" /\ gp.m_seq = 1
        /\ shared.read_idx = 0 /\ shared.write_idx = 1
        /\ shared.packets[0].seq = 1)
       => (/\ v1'.g_last_seq = 1
           /\ \A c \in Channels : pwm'[c] = pca9685_pulse(shared.packets[0].servo_us[c]))]_vars

\* A pose without FLAG_ESTOP, newer than the last accepted one, waits in the
\* ring while the GP latch is clear after a resume.
ResumedPosePending ==
    /\ hc_cmd \in {"resume", "clear_estop", "serial_resume"}
    /\ ~gp.g_estop
    /\ shared.write_idx = shared.read_idx + 1
    /\ LET pkt == shared.packets[shared_buffer_slot_index(shared.read_idx)]
       IN  /\ FLAG_ESTOP \notin pkt.flags
           /\ validate_packet(pkt, v1.g_last_seq) = 0

\* C35: after an emergency stop and an accepted resume on the GP side the RT
\* side leaves its ESTOP condition too, so that a valid pose sent afterwards
\* is eventually drained from the ring (unless the GP latches ESTOP again).
ResumedPoseEventuallyDrained ==
    (ResumedPosePending /\ v1.g_estop_active)
        ~> ((~v1.g_estop_active /\ shared.read_idx = shared.write_idx) \/ gp.g_estop)

\* C36: heartbeat packets (HOLD-flagged) that follow an accepted pose do not
\* keep the motion task from reaching the pose's target: when the motion task
\* takes a HOLD packet while it is moving, with the watchdog NORMAL before
\* and after and no ESTOP, it is still moving afterwards or is at the target.
HeartbeatKeepsMoving ==
    [][(/\ MotionTaskIter
        /\ motion_queue # <<>>
        /\ FLAG_HOLD \in Head(motion_queue).flags
        /\ FLAG_ESTOP \notin Head(motion_queue).flags
        /\ mt.s_state = "MOVING"
        /\ wdg.s_state = "NORMAL" /\ wdg'.s_state = "NORMAL")
       => (mt'.s_state = "MOVING" \/ mt'.s_current_us = mt'.s_target_us)]_vars

\* C37: watchdog_feed always records the current time as the last feed; from
\* TIMEOUT or HOLD the state becomes NORMAL and the HEARTBEAT_TIMEOUT fault
\* is cleared; from NORMAL or ESTOP the state is left unchanged.
FeedRecordsAndRestores ==
    wf_before # NotFed =>
        /\ wf.feed_age = 0
        /\ wf_before.s_state \in {"TIMEOUT", "HOLD"} =>
               wf.s_state = "NORMAL" /\ "HEARTBEAT_TIMEOUT" \notin wf_faults
        /\ wf_before.s_state \in {"NORMAL", "ESTOP"} => wf.s_state = wf_before.s_state

\* A feed has just returned that found the watchdog in TIMEOUT with the
\* fault set.
FeedRecordsAndRestores_witness ==
    /\ wf_before.s_state = "TIMEOUT"
    /\ "HEARTBEAT_TIMEOUT" \in wf_before.faults
    /\ wf = [s_state |-> "NORMAL", feed_age |-> 0]

\* C38: a queued motion command whose name is not a loaded sequence is
\* refused without side effects: the tick that takes it from the queue
\* leaves the running sequence's name and its continuous / one-shot setting
\* as they were, and when idle leaves the mode and the iterator too.
UnknownCommandRefused ==
    [][(/\ TM_Tick
        /\ tm.m_command_queue # <<>>
        /\ ~hasSequence(Head(tm.m_command_queue).name))
       => (/\ tm'.m_current_sequence_name = tm.m_current_sequence_name
           /\ tm'.m_sequence_continuous = tm.m_sequence_continuous
           /\ tm.m_mode = "IDLE" =>
                  /\ tm'.m_mode = "IDLE"
                  /\ tm'.m_current_iterator = tm.m_current_iterator)]_vars

\* C39: whatever scan_start commands are received, the active scan profile
\* stays well formed (rate_hz >= 1, step_deg >= 1, min_deg <= max_deg) and
\* the current angle of a running scan lies within [min_deg, max_deg].
ScanProfileWellFormed ==
    /\ sc.m_profile.rate_hz >= 1
    /\ sc.m_profile.step_deg >= 1
    /\ sc.m_profile.min_deg <= sc.m_profile.max_deg
    /\ sc.m_running =>
           /\ sc.m_profile.min_deg <= sc.m_current_angle
           /\ sc.m_current_angle <= sc.m_profile.max_deg

\* The interpolation was aborted: it is inactive before its time is over.
ItAborted ==
    /\ ~it_statics.s_active
    /\ ~U32Ge(it_statics.s_elapsed_ms, it_statics.s_duration_ms)

\* C40: after interpolator_abort every interpolator_tick returns true and
\* leaves the output pose as it was at the abort, until interpolator_start
\* is called again: the abort leaves the interpolator inactive with the
\* output untouched, and a tick of an inactive interpolator returns true,
\* changes no output and leaves it inactive.
AbortFreezesOutput ==
    [][/\ IT_Abort => (~it_statics'.s_active /\ it_output_us' = it_output_us)
       /\ (~it_statics.s_active /\ IT_Tick) =>
              /\ it_ret'
              /\ it_output_us' = it_output_us
              /\ ~it_statics'.s_active]_vars

\* A tick after an abort halfway has returned true, the output still short
\* of the target.
AbortFreezesOutput_witness ==
    /\ ItAborted
    /\ it_ticks > 0
    /\ it_ret
    /\ it_output_us # it_statics.s_target_us
    /\ it_output_us # it_statics.s_start_us

====
